---- MODULE Spec2Model ----
(***************************************************************************)
(* Model of the ingestion pipeline of the knowledge index:                 *)
(*   - scripts/ingest.ts   runIngestion, syncFiles, syncGitHistory,        *)
(*                         summarizeFile, generateTaskFromCommit           *)
(*   - core/chunker.ts     chunkCodeWithAST                                *)
(*   - schema.sql          the tables the pipeline writes                  *)
(*   - project.controller / project.service / queue.service                *)
(*                         the two ways an ingestion run is started        *)
(*                                                                         *)
(* Specification Spec runs runIngestion for one project statement by       *)
(* statement against a transactional store, with the working tree, the     *)
(* ignore policy, the commit log and the user's tasks changing between     *)
(* runs.  Specification SpecQueue models the request handlers that start   *)
(* ingestion runs.                                                         *)
(***************************************************************************)
EXTENDS Integers, Sequences, FiniteSets, TLC

\* ------------------------------------------------------------------ bounds
MaxRuns == 2
MaxFaults == 1
MaxEdits == 2
MaxCommits == 2
MaxUserTasks == 1

\* ------------------------------------------------------- working tree model
\* The project whose ingestion is modelled.
ProjectId == 1

\* glob('**/*') returns the files in this order.
PathOrder == <<"a.ts", "b.ts">>

Paths == {PathOrder[i] : i \in 1..Len(PathOrder)}

\* A file's content is a sequence of lines: "ws" a whitespace-only line,
\* "fn" a line holding a declaration the chunker's query captures, "txt" any
\* other non-blank line.
FileContents == {<<"ws">>, <<"txt">>, <<"txt", "ws">>, <<"fn", "txt", "fn">>}

\* readFileSync of a path that is not on disk.
NoFile == <<"ENOENT">>

RECURSIVE TrimStart(_)
TrimStart(s) ==
    IF s = <<>> THEN <<>>
    ELSE IF Head(s) = "ws" THEN TrimStart(Tail(s)) ELSE s

RECURSIVE TrimEnd(_)
TrimEnd(s) ==
    IF s = <<>> THEN <<>>
    ELSE IF s[Len(s)] = "ws" THEN TrimEnd(SubSeq(s, 1, Len(s) - 1)) ELSE s

\* String.prototype.trim
Trim(s) == TrimEnd(TrimStart(s))

\* crypto.createHash('sha256').update(content).digest('hex')
Sha256(content) == <<"sha256">> \o content

\* query.captures(tree.rootNode): one capture per declaration, in order.
RECURSIVE Captures(_, _)
Captures(content, i) ==
    IF i > Len(content) THEN <<>>
    ELSE IF content[i] = "fn"
         THEN <<[chunk_name |-> "decl", chunk_type |-> "function",
                 content |-> <<content[i]>>,
                 start_line |-> i, end_line |-> i]>> \o Captures(content, i + 1)
         ELSE Captures(content, i + 1)

\* Variant: the chunker without the whole-file fallback.
chunkCodeWithAST_NoFallback(content) == Captures(content, 1)

chunkCodeWithAST(content) ==
    LET chunks == Captures(content, 1)
    IN  IF Len(chunks) = 0 /\ Len(Trim(content)) > 0
        THEN <<[chunk_name |-> "file_content", chunk_type |-> "block",
                content |-> content,
                start_line |-> 1, end_line |-> Len(content)]>>
        ELSE chunks

\* ------------------------------------------------------------ store model
EmptyDb ==
    [indexed_files |-> {}, code_chunks |-> {}, commits |-> {},
     commit_files |-> {}, tasks |-> {}]

\* Variant: code_chunks.file_id without ON DELETE CASCADE.
DeleteFiles_NoCascade(db, project, paths) ==
    LET gone == {f \in db.indexed_files : f.project_id = project /\ f.path \in paths}
    IN  [db EXCEPT !.indexed_files = @ \ gone]

\* DELETE FROM indexed_files WHERE project_id = $1 AND path = ANY($2), with
\* the ON DELETE CASCADE of code_chunks.file_id and commit_files.file_id.
DeleteFiles(db, project, paths) ==
    LET gone == {f \in db.indexed_files : f.project_id = project /\ f.path \in paths}
        ids == {f.id : f \in gone}
    IN  [db EXCEPT !.indexed_files = @ \ gone,
                   !.code_chunks = {c \in @ : c.file_id \notin ids},
                   !.commit_files = {l \in @ : l.file_id \notin ids}]

\* Variant: knowledge_note_links.file_id without ON DELETE CASCADE.
LinksLeft_NoCascade(links, before, after) == links

\* knowledge_note_links.file_id REFERENCES indexed_files(id) ON DELETE
\* CASCADE: the link rows left when a delete takes the store from
\* `before` to `after`.
LinksLeft(links, before, after) ==
    LET gone == {f.id : f \in before.indexed_files} \ {f.id : f \in after.indexed_files}
    IN  {l \in links : ~(l.kind = "file" /\ l.target \in gone)}

\* Variant: the SELECT without the project_id condition.
FileRows_AnyProject(db, project, path) ==
    {f \in db.indexed_files : f.path = path}

\* SELECT ... FROM indexed_files WHERE project_id = $1 AND path = $2
FileRows(db, project, path) ==
    {f \in db.indexed_files : f.project_id = project /\ f.path = path}

ChunkRows(db, project, path) ==
    {c \in db.code_chunks :
        \E f \in FileRows(db, project, path) : f.id = c.file_id}

\* The rows of a chunk list as stored for a file id.
ChunkRowsOf(fileId, chunks) ==
    {[file_id |-> fileId, chunk_name |-> chunks[i].chunk_name,
      chunk_type |-> chunks[i].chunk_type, content |-> chunks[i].content,
      start_line |-> chunks[i].start_line, end_line |-> chunks[i].end_line] :
        i \in 1..Len(chunks)}

ProjectTasks(db) == {t \in db.tasks : t.project_id = ProjectId}

ProjectCommits(db) == {c \in db.commits : c.project_id = ProjectId}

\* ------------------------------------------------------- commit log model
\* A commit message is a sequence of whitespace-separated words.
Lower(w) ==
    CASE w = "Fixes" -> "fixes"
      [] w = "CLOSES" -> "closes"
      [] w = "Resolves" -> "resolves"
      [] OTHER -> w

\* The words whose lower-case form ends with closes, fixes or resolves.
EndsWithKeyword(w) == Lower(w) \in {"closes", "fixes", "resolves", "prefixes"}

\* The words of the form #<digits>, with the number parseInt reads.
HashNumber(w) ==
    CASE w = "#1" -> 1
      [] w = "#2" -> 2
      [] w = "#9" -> 9
      [] OTHER -> 0

\* /(?:closes|fixes|resolves)\s+#(\d+)/gi .exec(message): the number of the
\* first match, 0 when the message has no match.
RECURSIVE TaskRefFrom(_, _)
TaskRefFrom(message, i) ==
    IF i >= Len(message) THEN 0
    ELSE IF EndsWithKeyword(message[i]) /\ HashNumber(message[i + 1]) > 0
         THEN HashNumber(message[i + 1])
         ELSE TaskRefFrom(message, i + 1)

\* Variant: the regex without the i flag.
RECURSIVE TaskRef_CaseSensitive(_)
TaskRef_CaseSensitive(message) ==
    IF Len(message) < 2 THEN 0
    ELSE IF message[1] \in {"closes", "fixes", "resolves"} /\ HashNumber(message[2]) > 0
         THEN HashNumber(message[2])
         ELSE TaskRef_CaseSensitive(Tail(message))

TaskRef(message) == TaskRefFrom(message, 1)

\* diff.trim().length < 50
TrivialPatchLength == 50

\* The commits that can be pushed to the log.  changes are the lines of
\* `git show --name-status`, split at tabs (the line of a rename holds the
\* similarity, the old path and the new path); patch is the length of the
\* trimmed `git show --patch` text.
CommitUniverse ==
    { [hash |-> "feat", message |-> <<"add", "parser">>,
       changes |-> << <<"A", "a.ts">>, <<"M", "lib.ts">>,
                      <<"R100", "old.ts", "b.ts">> >>, patch |-> 50],
      [hash |-> "fix", message |-> <<"Fixes", "#1">>,
       changes |-> << <<"M", "a.ts">>, <<"M", "b.ts">> >>, patch |-> 120],
      [hash |-> "typo", message |-> <<"fix", "#1", "typo">>,
       changes |-> << <<"M", "b.ts">> >>, patch |-> 49] }

\* [...log.all].reverse()
RECURSIVE Reverse(_)
Reverse(s) == IF s = <<>> THEN <<>> ELSE Reverse(Tail(s)) \o <<Head(s)>>

\* Variant: the filter keeps every commit of the log.
FilterNew_KeepsAll(all, existing) == all

\* allCommits.filter(c => !existingHashes.has(c.hash))
RECURSIVE FilterNew(_, _)
FilterNew(all, existing) ==
    IF all = <<>> THEN <<>>
    ELSE IF Head(all).hash \in existing
         THEN FilterNew(Tail(all), existing)
         ELSE <<Head(all)>> \o FilterNew(Tail(all), existing)

\* What the completion call of generateTaskFromCommit can produce.
TaskResponses ==
    {"throws", "empty", "NULL", "null", "bad_json", "missing_field", "valid"}

\* String.prototype.toUpperCase on the responses.
ToUpperCase(text) == IF text = "null" THEN "NULL" ELSE text

\* !responseText || responseText.toUpperCase() === 'NULL'
IsTrivialResponse(text) == text = "empty" \/ ToUpperCase(text) = "NULL"

\* ------------------------------------------------------------------ state
VARIABLES
    disk,        \* working tree: path -> content, NoFile when absent
    gitignore,   \* the paths the compiled .gitignore rejects
    gitlog,      \* log.all: the commits, newest first
    committed,   \* the store as every connection sees it outside a transaction
    view,        \* the store as the ingestion connection sees it
    seq,         \* the SERIAL sequences (never rolled back)
    tx,          \* transaction of the ingestion connection: none, open, aborted
    conn,        \* the ingestion connection: closed or open
    pc,          \* position of runIngestion
    todo,        \* the rest of filesToIndex, then of newCommits
    loc,         \* locals of the loop body
    logs,        \* what the current run has passed to logger
    processedCount,
    threw,       \* the step whose exception is unwinding the run, or "none"
    faults,      \* failures injected so far
    edits,       \* environment changes so far
    runs,        \* runs started so far
    unit,        \* history: the last transaction begun and what happened to it
    run,         \* history: what the current run has done
    prev,        \* history: the previous run and what changed since
    inserted,    \* history: commit hashes in the order their rows were committed
    projects,    \* ids of the projects that have a row
    queue,       \* ingestionQueue: the jobs added and not yet started
    active,      \* ingestionQueue: the job it is running, or NoJob
    background,  \* the runs started by startProjectIngestionInBackground
    requests,    \* requests served so far
    kb,          \* knowledge notes, their links, document chunks and messages
    missing,     \* the tables of the retrieval searches that do not exist
    ask,         \* the question or context-bundle request in progress
    cap,         \* the knowledge capture request in progress
    pool,        \* clients of the shared pool that are checked out
    req,         \* history: the last updateTask request and how it ended
    doc,         \* the text handed to chunkText and the chunks it returned
    docdb,       \* project_documents and document_chunks as committed
    upload,      \* the addProjectDocument call in progress
    captures,    \* the captureKnowledgeFromConversation calls that share the pool
    chat,        \* a conversation and the message requests on it
    twin         \* two ingestion runs of one project on one database

ingestVars ==
    <<disk, gitignore, gitlog, committed, view, seq, tx, conn, pc, todo, loc,
      logs, processedCount, threw, faults, edits, runs, unit, run, prev,
      inserted>>

queueVars == <<projects, queue, active, background, requests>>

\* The state of the document upload, of the captures that share the pool,
\* of the message requests and of the concurrent runs.
uploadVars == <<docdb, upload>>

sideVars == <<uploadVars, captures, chat, twin>>

askVars == <<kb, missing, ask, cap, pool, req, doc, sideVars>>

vars == <<ingestVars, queueVars, askVars>>

NoCommit == [hash |-> "", message |-> <<>>, changes |-> <<>>, patch |-> 0]

NoLoc ==
    [path |-> "", content |-> NoFile, hash |-> <<>>, summary |-> "",
     fileId |-> 0, chunks |-> <<>>,
     commit |-> NoCommit, commitId |-> 0, lines |-> <<>>, response |-> ""]

NoUnit ==
    [kind |-> "none", key |-> "", message |-> <<>>, pre |-> EmptyDb,
     failed |-> {}, outcome |-> "none", patched |-> FALSE, generated |-> FALSE]

NoRun == [pre |-> EmptyDb, repeat |-> FALSE, calls |-> FALSE, writes |-> FALSE, clean |-> TRUE,
          fileSyncReturned |-> FALSE, gitStarted |-> FALSE, newCommits |-> -1,
          gitBegun |-> FALSE,
          gitPre |-> EmptyDb, ended |-> FALSE]

\* knowledge_notes, knowledge_note_links, document_chunks joined with
\* project_documents, and the messages of the conversation in created_at
\* order.
EmptyKb ==
    [knowledge_notes |-> {}, knowledge_note_links |-> {}, document_chunks |-> {},
     messages |-> <<>>, noteSeq |-> 1, linkSeq |-> 1]

UserMessage == [role |-> "user", sources |-> <<>>]

AssistantMessage(sources) == [role |-> "assistant", sources |-> sources]

\* A streamResponse call with its getAnswerStream call: the response, the
\* locals of getAnswerStream and what the call has done; stale records that
\* a file of the first stage was gone when the chunk query ran.
NoAsk ==
    [pc |-> "idle", kind |-> "none", history |-> 0, client |-> FALSE,
     context |-> {}, sources |-> <<>>, files |-> {}, chunks |-> {},
     code |-> {}, stale |-> FALSE, warned |-> {}, completion |-> FALSE, returned |-> FALSE,
     error |-> "none", ended |-> FALSE, sent |-> {}, late |-> {},
     tokens |-> 0]

\* A captureKnowledgeFromConversation call: its locals, the link rows its open
\* transaction has inserted, and the sources it has looked up with the result
\* of each lookup.
NoCap ==
    [pc |-> "idle", messages |-> <<>>, called |-> FALSE, summary |-> "",
     result |-> "none", noteId |-> 0, todo |-> <<>>, links |-> {},
     looked |-> <<>>]

\* No question was asked and no capture requested.
NoReq == [status |-> "undefined", title |-> FALSE, error |-> "none"]

NoDoc == [build |-> "none", nodes |-> <<>>, pc |-> "none", chunks |-> <<>>]

\* No document was uploaded and no call is in progress.
EmptyDocs ==
    [project_documents |-> {}, document_chunks |-> {}, docSeq |-> 1, chunkSeq |-> 1]

EmptyTables == [project_documents |-> {}, document_chunks |-> {}]

\* An addProjectDocument call: its arguments, the tables as its transaction
\* sees them and as they were when it began, the chunks it has embedded and
\* how it ended.
NoUpload ==
    [pc |-> "idle", project |-> 0, file_name |-> "", build |-> "none",
     nodes |-> <<>>, view |-> EmptyTables, pre |-> EmptyTables, documentId |-> 0,
     todo |-> <<>>, embedded |-> <<>>, result |-> "none", failed |-> "none"]

\* The clients the shared pool hands out at most.
PoolSize == 2

\* A captureKnowledgeFromConversation call that has not been made.
IdleCapture ==
    [pc |-> "idle", project |-> 0, conversation |-> 0, messages |-> <<>>,
     result |-> "none"]

NoCaptures == [i \in 1..PoolSize |-> IdleCapture]

NoChat == [messages |-> <<>>, requests |-> <<>>]

\* The transaction of a run: the file rows it has deleted, the rows it has
\* inserted and the task it has closed, none of them committed.
NoTx ==
    [open |-> FALSE, del |-> {}, file |-> {}, commit |-> {}, links |-> {},
     task |-> {}, closed |-> {}]

\* A run of runIngestion on the shared database: its position, the rest of
\* filesToIndex and of newCommits, the rows its DELETE is waiting for, the
\* file id its SELECT returned, the rest of the changed lines, and the
\* errors its catch blocks have met.
IdleTwin ==
    [pc |-> "idle", files |-> <<>>, commits |-> <<>>, targets |-> {}, fileId |-> 0,
     lines |-> <<>>, tx |-> NoTx, errors |-> {}]

NoTwin ==
    [db |-> [files |-> {}, commits |-> {}, links |-> {}, tasks |-> {}],
     seq |-> [file |-> 1, commit |-> 1, task |-> 1],
     runs |-> [r \in {1, 2} |-> IdleTwin]]

SideNone ==
    /\ docdb = EmptyDocs
    /\ upload = NoUpload
    /\ captures = NoCaptures
    /\ chat = NoChat
    /\ twin = NoTwin

AskNone ==
    /\ kb = EmptyKb
    /\ missing = {}
    /\ ask = NoAsk
    /\ cap = NoCap
    /\ pool = 0
    /\ req = NoReq
    /\ doc = NoDoc
    /\ SideNone

IngestInit ==
    /\ disk = [p \in Paths |-> NoFile]
    /\ gitignore = {}
    /\ gitlog = <<>>
    /\ committed = EmptyDb
    /\ view = EmptyDb
    /\ seq = [file |-> 1, commit |-> 1, task |-> 1]
    /\ tx = "none"
    /\ conn = "closed"
    /\ pc = "idle"
    /\ todo = <<>>
    /\ loc = NoLoc
    /\ logs = {}
    /\ processedCount = 0
    /\ threw = "none"
    /\ faults = 0
    /\ edits = 0
    /\ runs = 0
    /\ unit = NoUnit
    /\ run = NoRun
    /\ prev = [clean |-> FALSE, changed |-> FALSE]
    /\ inserted = <<>>

\* ------------------------------------------------------------ environment
\* The working tree, the ignore file, the log and the tasks change between
\* runs.
EnvStep == pc = "idle" /\ edits < MaxEdits /\ edits' = edits + 1

WriteFile(p, c) ==
    /\ EnvStep
    /\ disk[p] # c
    /\ disk' = [disk EXCEPT ![p] = c]
    /\ prev' = [prev EXCEPT !.changed = TRUE]
    /\ UNCHANGED <<gitignore, gitlog, committed, view, seq, tx, conn, pc, todo,
                   loc, logs, processedCount, threw, faults, runs, unit, run,
                   inserted, queueVars, askVars>>

RemoveFile(p) ==
    /\ EnvStep
    /\ disk[p] # NoFile
    /\ disk' = [disk EXCEPT ![p] = NoFile]
    /\ prev' = [prev EXCEPT !.changed = TRUE]
    /\ UNCHANGED <<gitignore, gitlog, committed, view, seq, tx, conn, pc, todo,
                   loc, logs, processedCount, threw, faults, runs, unit, run,
                   inserted, queueVars, askVars>>

SetIgnore(ps) ==
    /\ EnvStep
    /\ gitignore # ps
    /\ gitignore' = ps
    /\ prev' = [prev EXCEPT !.changed = TRUE]
    /\ UNCHANGED <<disk, gitlog, committed, view, seq, tx, conn, pc, todo,
                   loc, logs, processedCount, threw, faults, runs, unit, run,
                   inserted, queueVars, askVars>>

GitPush(c) ==
    /\ EnvStep
    /\ Len(gitlog) < MaxCommits
    /\ \A i \in 1..Len(gitlog) : gitlog[i].hash # c.hash
    /\ gitlog' = <<c>> \o gitlog
    /\ prev' = [prev EXCEPT !.changed = TRUE]
    /\ UNCHANGED <<disk, gitignore, committed, view, seq, tx, conn, pc, todo,
                   loc, logs, processedCount, threw, faults, runs, unit, run,
                   inserted, queueVars, askVars>>

\* task.service createTask: INSERT INTO tasks (project_id, title, ...) with the
\* defaults status 'open' and task_number nextval.
createTask(project) ==
    /\ EnvStep
    /\ Cardinality({t \in committed.tasks : t.origin = "user"}) < MaxUserTasks
    /\ LET db == [committed EXCEPT !.tasks = @ \cup
                     {[task_number |-> seq.task, project_id |-> project,
                       status |-> "open", origin |-> "user", updated_at |-> "created"]}]
       IN  committed' = db /\ view' = db
    /\ seq' = [seq EXCEPT !.task = @ + 1]
    /\ prev' = [prev EXCEPT !.changed = TRUE]
    /\ UNCHANGED <<disk, gitignore, gitlog, tx, conn, pc, todo,
                   loc, logs, processedCount, threw, faults, runs, unit, run,
                   inserted, queueVars, askVars>>

\* ------------------------------------------------------------ runIngestion
envVars == <<disk, gitignore, gitlog, edits, prev>>

Works == faults' = faults

Fails == faults < MaxFaults /\ faults' = faults + 1

\* Variant: runIngestion swallows the exception of syncFiles and goes on
\* with syncGitHistory.
Throw_Swallowed(step) ==
    /\ Fails
    /\ threw' = step
    /\ pc' = IF step = "git_load" THEN "finally" ELSE "git_load"
    /\ run' = [run EXCEPT !.clean = FALSE,
                          !.gitStarted = @ \/ step = "git_load"]
    /\ logs' = logs
    /\ UNCHANGED <<committed, view, seq, tx, conn, todo, loc, processedCount,
                   unit, inserted>>

\* An exception leaves syncFiles or syncGitHistory: control goes to the
\* finally block of runIngestion.
Throw(step) ==
    /\ Fails
    /\ threw' = step
    /\ pc' = "finally"
    /\ run' = [run EXCEPT !.clean = FALSE,
                          !.gitStarted = @ \/ step = "git_load"]
    /\ logs' = logs
    /\ UNCHANGED <<committed, view, seq, tx, conn, todo, loc, processedCount,
                   unit, inserted>>

StartRun ==
    /\ pc = "idle"
    /\ runs < MaxRuns
    /\ runs' = runs + 1
    /\ conn' = "open"
    /\ logs' = {<<"Database connection established.">>}
    /\ pc' = "prune"
    /\ run' = [NoRun EXCEPT !.pre = committed,
                             !.repeat = prev.clean /\ ~prev.changed]
    /\ unit' = NoUnit
    /\ processedCount' = 0
    /\ threw' = "none"
    /\ loc' = NoLoc
    /\ todo' = <<>>
    /\ UNCHANGED <<envVars, committed, view, seq, tx, faults, inserted, queueVars, askVars>>

IGNORED_EXTENSIONS == {".lock", ".svg", ".png", ".jpg", ".jpeg", ".gif", ".ico"}

IGNORED_FILENAMES == {"package-lock.json", "yarn.lock", "pnpm-lock.yaml"}

\* path.extname and path.basename of the modelled paths.
Extname(p) == CASE p = "yarn.lock" -> ".lock" [] OTHER -> ".ts"

Basename(p) == p

\* ignore.accepts(file) && !IGNORED_EXTENSIONS.has(ext) && !IGNORED_FILENAMES.has(filename)
Indexable(p) ==
    /\ p \notin gitignore
    /\ Extname(p) \notin IGNORED_EXTENSIONS
    /\ Basename(p) \notin IGNORED_FILENAMES

RECURSIVE FilterSeq(_, _)
FilterSeq(s, keep) ==
    IF s = <<>> THEN <<>>
    ELSE IF Head(s) \in keep THEN <<Head(s)>> \o FilterSeq(Tail(s), keep)
         ELSE FilterSeq(Tail(s), keep)

\* syncFiles up to the loop: prune the stored paths that are not on disk and
\* list the files to index.
FilePrune ==
    /\ pc = "prune"
    /\ \/ Throw("prune")
       \/ /\ Works
          /\ LET dbPaths == {f.path : f \in {g \in view.indexed_files : g.project_id = ProjectId}}
                 diskPaths == {p \in Paths : disk[p] # NoFile}
                 pathsToDelete == dbPaths \ diskPaths
                 db == DeleteFiles(view, ProjectId, pathsToDelete)
             IN  /\ IF pathsToDelete # {}
                    THEN /\ committed' = db
                         /\ view' = db
                         /\ run' = [run EXCEPT !.writes = TRUE]
                         /\ logs' = logs \cup {<<"Pruning complete.">>}
                    ELSE /\ UNCHANGED <<committed, view, run>>
                         /\ logs' = logs \cup {<<"No files to prune.">>}
                 /\ todo' = FilterSeq(PathOrder, {p \in diskPaths : Indexable(p)})
          /\ pc' = "file_loop"
          /\ UNCHANGED <<seq, tx, conn, loc, processedCount, threw, unit, inserted>>
    /\ kb' = [kb EXCEPT !.knowledge_note_links = LinksLeft(@, committed, committed')]
    /\ UNCHANGED <<envVars, runs, queueVars, missing, ask, cap, pool, req, doc, sideVars>>

\* The loop is over: syncFiles logs its count and returns.
FileSyncDone ==
    /\ pc = "file_loop"
    /\ todo = <<>>
    /\ logs' = logs \cup {<<"File sync complete.", processedCount>>}
    /\ run' = [run EXCEPT !.fileSyncReturned = TRUE]
    /\ pc' = "git_load"
    /\ UNCHANGED <<envVars, committed, view, seq, tx, conn, todo, loc,
                   processedCount, threw, faults, runs, unit, inserted, queueVars, askVars>>

\* fs.readFileSync and the blank test, outside any try block.
FileRead ==
    /\ pc = "file_loop"
    /\ todo # <<>>
    /\ \/ Throw("read")
       \/ /\ Works
          /\ LET content == disk[Head(todo)]
             IN  IF Len(Trim(content)) = 0
                 THEN /\ todo' = Tail(todo)
                      /\ UNCHANGED <<pc, loc>>
                 ELSE /\ loc' = [NoLoc EXCEPT !.path = Head(todo), !.content = content]
                      /\ pc' = "file_lookup"
                      /\ todo' = todo
          /\ UNCHANGED <<committed, view, seq, tx, conn, logs, processedCount,
                         threw, unit, run, inserted>>
    /\ UNCHANGED <<envVars, runs, queueVars, askVars>>

\* Variant: the comparison reads a column the SELECT does not return.
HashMatches_WrongColumn(rows, hash) == FALSE

\* rows.length > 0 && rows[0].content_hash === hash
HashMatches(rows, hash) == \E r \in rows : r.content_hash = hash

\* The hash, the SELECT of the stored hash, and BEGIN.
FileLookup ==
    /\ pc = "file_lookup"
    /\ \/ Throw("lookup")
       \/ /\ Works
          /\ LET hash == Sha256(loc.content)
                 rows == FileRows(view, ProjectId, loc.path)
             IN  IF HashMatches(rows, hash)
                 THEN /\ todo' = Tail(todo)
                      /\ pc' = "file_loop"
                      /\ loc' = NoLoc
                      /\ UNCHANGED <<processedCount, logs, tx, unit>>
                 ELSE /\ processedCount' = processedCount + 1
                      /\ logs' = logs \cup {<<"Processing changed file", loc.path>>}
                      /\ loc' = [loc EXCEPT !.hash = hash]
                      /\ tx' = "open"
                      /\ unit' = [NoUnit EXCEPT !.kind = "file", !.key = loc.path,
                                                 !.pre = committed, !.outcome = "open"]
                      /\ pc' = "file_delete"
                      /\ todo' = todo
          /\ UNCHANGED <<committed, view, seq, conn, threw, run, inserted>>
    /\ UNCHANGED <<envVars, runs, queueVars, askVars>>

\* Variant: the catch block logs the failure without a ROLLBACK.
FileCatch_NoRollback(step) ==
    /\ logs' = logs \cup {<<"Failed to process", loc.path>>}
    /\ unit' = [unit EXCEPT !.failed = @ \cup {step}]
    /\ run' = [run EXCEPT !.clean = FALSE]
    /\ todo' = Tail(todo)
    /\ loc' = NoLoc
    /\ pc' = "file_loop"
    /\ UNCHANGED <<committed, view, tx, conn, processedCount, threw, inserted>>

\* The catch block of the file loop: ROLLBACK, log, next file.
FileCatch(step) ==
    /\ view' = committed
    /\ tx' = "none"
    /\ logs' = logs \cup {<<"Failed to process", loc.path>>}
    /\ unit' = [unit EXCEPT !.failed = @ \cup {step}, !.outcome = "rolled_back"]
    /\ run' = [run EXCEPT !.clean = FALSE]
    /\ todo' = Tail(todo)
    /\ loc' = NoLoc
    /\ pc' = "file_loop"
    /\ UNCHANGED <<committed, conn, processedCount, threw, inserted>>

FileDelete ==
    /\ pc = "file_delete"
    /\ \/ Fails /\ FileCatch("delete") /\ seq' = seq
       \/ /\ Works
          /\ view' = DeleteFiles(view, ProjectId, {loc.path})
          /\ run' = [run EXCEPT !.writes = TRUE]
          /\ pc' = "file_summarize"
          /\ UNCHANGED <<committed, seq, tx, conn, todo, loc, logs,
                         processedCount, threw, unit, inserted>>
    /\ UNCHANGED <<envVars, runs, queueVars, askVars>>

\* summarizeFile: a failed completion is logged and replaced by a fixed text.
summarizeFile ==
    /\ pc = "file_summarize"
    /\ \/ /\ Fails
          /\ logs' = logs \cup {<<"Failed to summarize", loc.path>>}
          /\ loc' = [loc EXCEPT !.summary = "Summary generation failed."]
          /\ unit' = [unit EXCEPT !.failed = @ \cup {"summarize"}]
       \/ /\ Works
          /\ \E text \in {"summary", "Could not generate a summary."} :
                loc' = [loc EXCEPT !.summary = text]
          /\ UNCHANGED <<logs, unit>>
    /\ run' = [run EXCEPT !.calls = TRUE]
    /\ pc' = "file_embed"
    /\ UNCHANGED <<envVars, committed, view, seq, tx, conn, todo,
                   processedCount, threw, runs, inserted, queueVars, askVars>>

\* getEmbedding(summary)
FileEmbedSummary ==
    /\ pc = "file_embed"
    /\ \/ Fails /\ FileCatch("embed_summary") /\ seq' = seq
       \/ /\ Works
          /\ pc' = "file_insert"
          /\ run' = [run EXCEPT !.calls = TRUE]
          /\ UNCHANGED <<committed, view, seq, tx, conn, todo, loc, logs,
                         processedCount, threw, unit, inserted>>
    /\ UNCHANGED <<envVars, runs, queueVars, askVars>>

\* INSERT INTO indexed_files ... RETURNING id, then the chunker.
FileInsert ==
    /\ pc = "file_insert"
    /\ \/ Fails /\ FileCatch("insert_file") /\ seq' = seq
       \/ /\ Works
          /\ view' = [view EXCEPT !.indexed_files = @ \cup
                        {[id |-> seq.file, project_id |-> ProjectId, path |-> loc.path,
                          content_hash |-> loc.hash, summary |-> loc.summary]}]
          /\ seq' = [seq EXCEPT !.file = @ + 1]
          /\ loc' = [loc EXCEPT !.fileId = seq.file]
          /\ pc' = "file_chunk"
          /\ UNCHANGED <<committed, tx, conn, todo, logs, processedCount, threw,
                         unit, run, inserted>>
    /\ UNCHANGED <<envVars, runs, queueVars, askVars>>

FileChunk ==
    /\ pc = "file_chunk"
    /\ \/ Fails /\ FileCatch("chunk") /\ seq' = seq
       \/ /\ Works
          /\ loc' = [loc EXCEPT !.chunks = chunkCodeWithAST(loc.content)]
          /\ pc' = "file_chunks"
          /\ UNCHANGED <<committed, view, seq, tx, conn, todo, logs,
                         processedCount, threw, unit, run, inserted>>
    /\ UNCHANGED <<envVars, runs, queueVars, askVars>>

\* One turn of the chunk loop: getEmbedding(chunk.content) and the INSERT.
FileChunkInsert ==
    /\ pc = "file_chunks"
    /\ loc.chunks # <<>>
    /\ \/ \E step \in {"embed_chunk", "insert_chunk"} : Fails /\ FileCatch(step)
       \/ /\ Works
          /\ view' = [view EXCEPT !.code_chunks = @ \cup
                        ChunkRowsOf(loc.fileId, <<Head(loc.chunks)>>)]
          /\ loc' = [loc EXCEPT !.chunks = Tail(@)]
          /\ run' = [run EXCEPT !.calls = TRUE, !.writes = TRUE]
          /\ UNCHANGED <<committed, tx, conn, todo, logs, pc,
                         processedCount, threw, unit, inserted>>
    /\ UNCHANGED <<envVars, seq, runs, queueVars, askVars>>

\* COMMIT of the file's transaction; the cascades of its DELETE become
\* visible with it.
FileCommit ==
    /\ pc = "file_chunks"
    /\ loc.chunks = <<>>
    /\ committed' = view
    /\ kb' = [kb EXCEPT !.knowledge_note_links = LinksLeft(@, committed, view)]
    /\ tx' = "none"
    /\ unit' = [unit EXCEPT !.outcome = "committed"]
    /\ todo' = Tail(todo)
    /\ loc' = NoLoc
    /\ pc' = "file_loop"
    /\ UNCHANGED <<envVars, view, seq, conn, logs, processedCount, threw,
                   faults, runs, run, inserted, queueVars, missing, ask, cap,
                   pool, req, doc, sideVars>>

\* ---------------------------------------------------------- syncGitHistory
\* SELECT commit_hash, git.log(), reverse, filter; return when nothing is new.
GitLoad ==
    /\ pc = "git_load"
    /\ \/ Throw("git_load")
       \/ /\ Works
          /\ LET existingHashes ==
                     {c.commit_hash : c \in {d \in view.commits : d.project_id = ProjectId}}
                 allCommits == Reverse(gitlog)
                 newCommits == FilterNew(allCommits, existingHashes)
             IN  /\ run' = [run EXCEPT !.gitStarted = TRUE,
                                       !.newCommits = Len(newCommits),
                                       !.gitPre = committed]
                 /\ IF Len(newCommits) = 0
                    THEN /\ logs' = logs \cup {<<"Git history is already up-to-date.">>}
                         /\ pc' = "finally"
                         /\ todo' = <<>>
                    ELSE /\ logs' = logs \cup {<<"Found new commits", Len(newCommits)>>}
                         /\ pc' = "git_loop"
                         /\ todo' = newCommits
          /\ UNCHANGED <<committed, view, seq, tx, conn, loc, processedCount,
                         threw, unit, inserted>>
    /\ UNCHANGED <<envVars, runs, queueVars, askVars>>

GitSyncDone ==
    /\ pc = "git_loop"
    /\ todo = <<>>
    /\ logs' = logs \cup {<<"Git history sync complete.">>}
    /\ pc' = "finally"
    /\ UNCHANGED <<envVars, committed, view, seq, tx, conn, todo, loc,
                   processedCount, threw, faults, runs, unit, run, inserted,
                   queueVars, askVars>>

\* BEGIN of a commit's transaction.
GitBegin ==
    /\ pc = "git_loop"
    /\ todo # <<>>
    /\ loc' = [NoLoc EXCEPT !.commit = Head(todo)]
    /\ logs' = logs \cup {<<"Processing commit", Head(todo).hash>>}
    /\ tx' = "open"
    /\ unit' = [NoUnit EXCEPT !.kind = "commit", !.key = Head(todo).hash,
                               !.message = Head(todo).message,
                               !.pre = committed, !.outcome = "open"]
    /\ run' = [run EXCEPT !.gitBegun = TRUE]
    /\ pc' = "git_embed"
    /\ UNCHANGED <<envVars, committed, view, seq, conn, todo, processedCount,
                   threw, faults, runs, inserted, queueVars, askVars>>

\* Variant: the catch block ends the transaction with COMMIT.
GitCatch_Commits(step) ==
    /\ committed' = view
    /\ tx' = "none"
    /\ logs' = logs \cup {<<"Failed to process commit", loc.commit.hash>>}
    /\ unit' = [unit EXCEPT !.failed = @ \cup {step}, !.outcome = "rolled_back"]
    /\ run' = [run EXCEPT !.clean = FALSE]
    /\ todo' = Tail(todo)
    /\ loc' = NoLoc
    /\ pc' = "git_loop"
    /\ UNCHANGED <<view, conn, processedCount, threw, inserted>>

\* The catch block of the commit loop: ROLLBACK, log, next commit.
GitCatch(step) ==
    /\ view' = committed
    /\ tx' = "none"
    /\ logs' = logs \cup {<<"Failed to process commit", loc.commit.hash>>}
    /\ unit' = [unit EXCEPT !.failed = @ \cup {step}, !.outcome = "rolled_back"]
    /\ run' = [run EXCEPT !.clean = FALSE]
    /\ todo' = Tail(todo)
    /\ loc' = NoLoc
    /\ pc' = "git_loop"
    /\ UNCHANGED <<committed, conn, processedCount, threw, inserted>>

\* getEmbedding(commit.message)
GitEmbed ==
    /\ pc = "git_embed"
    /\ \/ Fails /\ GitCatch("embed_message")
       \/ /\ Works
          /\ run' = [run EXCEPT !.calls = TRUE]
          /\ pc' = "git_insert"
          /\ UNCHANGED <<committed, view, tx, conn, todo, loc, logs,
                         processedCount, threw, unit, inserted>>
    /\ UNCHANGED <<envVars, seq, runs, queueVars, askVars>>

\* INSERT INTO commits ... RETURNING id, under UNIQUE (project_id, commit_hash).
InsertCommit(db, id, project, commit) ==
    IF \E c \in db.commits : c.project_id = project /\ c.commit_hash = commit.hash
    THEN db
    ELSE [db EXCEPT !.commits = @ \cup
            {[id |-> id, project_id |-> project, commit_hash |-> commit.hash,
              message |-> commit.message]}]

GitInsert ==
    /\ pc = "git_insert"
    /\ \/ Fails /\ GitCatch("insert_commit") /\ seq' = seq
       \/ /\ Works
          /\ LET db == InsertCommit(view, seq.commit, ProjectId, loc.commit)
             IN  IF db = view
                 THEN GitCatch("insert_commit") /\ seq' = seq
                 ELSE /\ view' = db
                      /\ seq' = [seq EXCEPT !.commit = @ + 1]
                      /\ loc' = [loc EXCEPT !.commitId = seq.commit]
                      /\ run' = [run EXCEPT !.writes = TRUE]
                      /\ pc' = "git_show"
                      /\ UNCHANGED <<committed, tx, conn, todo, logs,
                                     processedCount, threw, unit, inserted>>
    /\ UNCHANGED <<envVars, runs, queueVars, askVars>>

\* git.show(['--name-status', ...]) and the split into non-blank lines.
GitShow ==
    /\ pc = "git_show"
    /\ \/ Fails /\ GitCatch("name_status")
       \/ /\ Works
          /\ loc' = [loc EXCEPT !.lines = loc.commit.changes]
          /\ pc' = "git_links"
          /\ UNCHANGED <<committed, view, tx, conn, todo, logs,
                         processedCount, threw, unit, run, inserted>>
    /\ UNCHANGED <<envVars, seq, runs, queueVars, askVars>>

\* One turn of the line loop: the SELECT of the file id and the INSERT of the
\* link, under UNIQUE (commit_id, file_id).
GitLink ==
    /\ pc = "git_links"
    /\ loc.lines # <<>>
    /\ \/ Fails /\ GitCatch("link")
       \/ /\ Works
          /\ LET parts == Head(loc.lines)
                 rows == IF Len(parts) < 2 THEN {}
                         ELSE FileRows(view, ProjectId, parts[2])
             IN  IF rows = {}
                 THEN /\ loc' = [loc EXCEPT !.lines = Tail(@)]
                      /\ UNCHANGED <<view, tx, todo, logs, unit, run, pc>>
                 ELSE LET fileId == (CHOOSE r \in rows : TRUE).id
                      IN  IF \E l \in view.commit_files :
                                l.commit_id = loc.commitId /\ l.file_id = fileId
                          THEN GitCatch("link")
                          ELSE /\ view' = [view EXCEPT !.commit_files = @ \cup
                                    {[commit_id |-> loc.commitId, file_id |-> fileId,
                                      change_type |-> parts[1]]}]
                               /\ loc' = [loc EXCEPT !.lines = Tail(@)]
                               /\ UNCHANGED <<tx, todo, logs, unit, run, pc>>
          /\ UNCHANGED <<committed, conn, processedCount, threw, inserted>>
    /\ UNCHANGED <<envVars, seq, runs, queueVars, askVars>>

\* Variant: the UPDATE without the test of the status.
CloseTask_AnyStatus(db, project, taskNumber) ==
    [db EXCEPT !.tasks =
        {IF t.project_id = project /\ t.task_number = taskNumber
         THEN [t EXCEPT !.status = "done", !.updated_at = "now"] ELSE t : t \in @}]

\* UPDATE tasks SET status = 'done', updated_at = NOW() WHERE project_id = $1
\* AND task_number = $2 AND status != 'done'
CloseTask(db, project, taskNumber) ==
    [db EXCEPT !.tasks =
        {IF t.project_id = project /\ t.task_number = taskNumber /\ t.status # "done"
         THEN [t EXCEPT !.status = "done", !.updated_at = "now"] ELSE t : t \in @}]

\* Variant: the regex is applied until it matches no more, and every task it
\* names is closed.
GitTaskRef_ClosesAll ==
    /\ pc = "git_links"
    /\ loc.lines = <<>>
    /\ LET message == loc.commit.message
           numbers == {HashNumber(message[i + 1]) :
                          i \in {j \in 1..(Len(message) - 1) :
                                    /\ EndsWithKeyword(message[j])
                                    /\ HashNumber(message[j + 1]) > 0}}
       IN  IF numbers # {}
           THEN \/ Fails /\ GitCatch("close_task")
                \/ /\ Works
                   /\ view' = [view EXCEPT !.tasks =
                                 {IF t.project_id = ProjectId /\ t.task_number \in numbers
                                     /\ t.status # "done"
                                  THEN [t EXCEPT !.status = "done", !.updated_at = "now"]
                                  ELSE t : t \in @}]
                   /\ logs' = logs \cup {<<"Found reference to close task", n>> : n \in numbers}
                   /\ pc' = "git_commit"
                   /\ UNCHANGED <<committed, tx, conn, todo, loc, processedCount,
                                  threw, unit, run, inserted>>
           ELSE /\ Works
                /\ pc' = "git_patch"
                /\ UNCHANGED <<committed, view, tx, conn, todo, loc, logs,
                               processedCount, threw, unit, run, inserted>>
    /\ UNCHANGED <<envVars, seq, runs, queueVars, askVars>>

\* The regex on the message: close the referenced task, or go on to
\* generateTaskFromCommit.
GitTaskRef ==
    /\ pc = "git_links"
    /\ loc.lines = <<>>
    /\ LET taskNumber == TaskRef(loc.commit.message)
       IN  IF taskNumber > 0
           THEN \/ Fails /\ GitCatch("close_task")
                \/ /\ Works
                   /\ view' = CloseTask(view, ProjectId, taskNumber)
                   /\ logs' = logs \cup {<<"Found reference to close task", taskNumber>>}
                   /\ pc' = "git_commit"
                   /\ UNCHANGED <<committed, tx, conn, todo, loc, processedCount,
                                  threw, unit, run, inserted>>
           ELSE /\ Works
                /\ pc' = "git_patch"
                /\ UNCHANGED <<committed, view, tx, conn, todo, loc, logs,
                               processedCount, threw, unit, run, inserted>>
    /\ UNCHANGED <<envVars, seq, runs, queueVars, askVars>>

\* Variant: generateTaskFromCommit without the size test.
GitPatch_NoSizeTest ==
    /\ pc = "git_patch"
    /\ \/ Fails /\ GitCatch("patch")
       \/ /\ Works
          /\ unit' = [unit EXCEPT !.patched = TRUE]
          /\ logs' = logs
          /\ pc' = "git_generate"
          /\ UNCHANGED <<committed, view, tx, conn, todo, loc,
                         processedCount, threw, run, inserted>>
    /\ UNCHANGED <<envVars, seq, runs, queueVars, askVars>>

\* generateTaskFromCommit, first part: git.show(['--patch', ...]) outside the
\* try block, and the size test.
GitPatch ==
    /\ pc = "git_patch"
    /\ \/ Fails /\ GitCatch("patch")
       \/ /\ Works
          /\ unit' = [unit EXCEPT !.patched = TRUE]
          /\ IF loc.commit.patch < TrivialPatchLength
             THEN /\ logs' = logs \cup {<<"trivial, skipping task generation", loc.commit.hash>>}
                  /\ pc' = "git_commit"
             ELSE /\ logs' = logs
                  /\ pc' = "git_generate"
          /\ UNCHANGED <<committed, view, tx, conn, todo, loc,
                         processedCount, threw, run, inserted>>
    /\ UNCHANGED <<envVars, seq, runs, queueVars, askVars>>

\* Variant: generateTaskFromCommit lets the failure of the call or of the
\* parse reach the catch block of the commit loop.
GitGenerate_Rethrows ==
    /\ pc = "git_generate"
    /\ \E response \in TaskResponses :
        /\ IF response = "throws" THEN Fails ELSE Works
        /\ IF response = "valid" \/ IsTrivialResponse(response)
           THEN /\ loc' = [loc EXCEPT !.response = response]
                /\ logs' = logs \cup {<<"AI generated task", loc.commit.hash>>}
                /\ pc' = IF response = "valid" THEN "git_task" ELSE "git_commit"
                /\ unit' = [unit EXCEPT !.generated = TRUE]
                /\ run' = [run EXCEPT !.calls = TRUE]
                /\ UNCHANGED <<committed, view, tx, conn, todo, processedCount,
                               threw, inserted>>
           ELSE GitCatch(response)
    /\ UNCHANGED <<envVars, seq, runs, queueVars, askVars>>

\* generateTaskFromCommit, the completion call and the parse of its answer,
\* inside the try block: every failure is logged and swallowed.
GitGenerate ==
    /\ pc = "git_generate"
    /\ \E response \in TaskResponses :
        /\ IF response = "throws" THEN Fails ELSE Works
        /\ loc' = [loc EXCEPT !.response = response]
        /\ CASE response = "valid" ->
                  /\ logs' = logs \cup {<<"AI generated task", loc.commit.hash>>}
                  /\ pc' = "git_task"
                  /\ unit' = [unit EXCEPT !.generated = TRUE]
             [] IsTrivialResponse(response) ->
                  /\ logs' = logs \cup {<<"AI determined commit is trivial", loc.commit.hash>>}
                  /\ pc' = "git_commit"
                  /\ unit' = [unit EXCEPT !.generated = TRUE]
             [] OTHER ->
                  /\ logs' = logs \cup {<<"Failed to generate task", loc.commit.hash>>}
                  /\ pc' = "git_commit"
                  /\ unit' = [unit EXCEPT !.failed = @ \cup {"generate", response},
                                          !.generated = TRUE]
    /\ run' = [run EXCEPT !.calls = TRUE]
    /\ UNCHANGED <<envVars, committed, view, seq, tx, conn, todo,
                   processedCount, threw, runs, inserted, queueVars, askVars>>

\* generateTaskFromCommit, last part: getEmbedding and INSERT INTO tasks with
\* status 'done', still inside the try block.  A statement that fails inside
\* a transaction leaves the transaction aborted; the failed INSERT may have
\* drawn its task_number from the sequence.
GitTask ==
    /\ pc = "git_task"
    /\ \/ /\ Fails
          /\ \E step \in {"embed_task", "insert_task"} :
                /\ unit' = [unit EXCEPT !.failed = @ \cup {step}]
                /\ tx' = IF step = "insert_task" THEN "aborted" ELSE tx
                /\ seq' \in IF step = "insert_task"
                            THEN {seq, [seq EXCEPT !.task = @ + 1]}
                            ELSE {seq}
          /\ logs' = logs \cup {<<"Failed to generate task", loc.commit.hash>>}
          /\ view' = view
       \/ /\ Works
          /\ view' = [view EXCEPT !.tasks = @ \cup
                        {[task_number |-> seq.task, project_id |-> ProjectId,
                          status |-> "done", origin |-> loc.commit.hash,
                          updated_at |-> "commit_date"]}]
          /\ seq' = [seq EXCEPT !.task = @ + 1]
          /\ logs' = logs \cup {<<"Created and closed retrospective task", loc.commit.hash>>}
          /\ UNCHANGED <<tx, unit>>
    /\ run' = [run EXCEPT !.calls = TRUE, !.writes = TRUE]
    /\ pc' = "git_commit"
    /\ UNCHANGED <<envVars, committed, conn, todo, loc, processedCount, threw,
                   runs, inserted, queueVars, askVars>>

\* COMMIT of the commit's transaction; COMMIT of an aborted transaction
\* rolls it back without an error.
GitCommit ==
    /\ pc = "git_commit"
    /\ IF tx = "aborted"
       THEN /\ view' = committed
            /\ unit' = [unit EXCEPT !.outcome = "rolled_back"]
            /\ run' = [run EXCEPT !.clean = FALSE]
            /\ UNCHANGED <<committed, inserted>>
       ELSE /\ committed' = view
            /\ unit' = [unit EXCEPT !.outcome = "committed"]
            /\ inserted' = Append(inserted, loc.commit.hash)
            /\ UNCHANGED <<view, run>>
    /\ tx' = "none"
    /\ todo' = Tail(todo)
    /\ loc' = NoLoc
    /\ pc' = "git_loop"
    /\ UNCHANGED <<envVars, seq, conn, logs, processedCount, threw, faults,
                   runs, queueVars, askVars>>

\* The finally block of runIngestion: log and client.end().
Finally ==
    /\ pc = "finally"
    /\ logs' = logs \cup {<<"Ingestion process finished.">>}
    /\ conn' = "closed"
    /\ run' = [run EXCEPT !.ended = TRUE]
    /\ prev' = [clean |-> run.clean /\ threw = "none", changed |-> FALSE]
    /\ pc' = "idle"
    /\ UNCHANGED <<disk, gitignore, gitlog, edits, committed, view, seq, tx,
                   todo, loc, processedCount, threw, faults, runs, unit,
                   inserted, queueVars, askVars>>

\* --------------------------------------------- requests that start a run
MaxRequests == 3

\* The sources a client can submit; the project created for a source gets
\* the source's index as its id.
Sources == <<"repoA", "repoB">>

ProjectIds == 1..Len(Sources)

\* A job of the queue with the response it writes to: ended is
\* res.writableEnded, closedAt where the job was when the client went away,
\* sent the events written, late the events written after the response
\* ended, run the ordinal of the run the job starts.
Job(id, project, phase) ==
    [id |-> id, project |-> project, phase |-> phase, ended |-> FALSE,
     closedAt |-> "none", sent |-> {}, late |-> {}, run |-> 0]

NoJob == Job(0, 0, "none")

\* The phases of startProjectIngestion in which a run works on the
\* repository and the store: cloneOrPullRepo, then runIngestion's syncFiles
\* and syncGitHistory.
RunningPhases == {"clone", "files", "git"}

QueueInit ==
    /\ projects = {}
    /\ queue = <<>>
    /\ active = NoJob
    /\ background = {}
    /\ requests = 0

\* project.controller addProject: createProject, and for a new project the
\* response followed by startProjectIngestionInBackground, which calls
\* startProjectIngestion at once.
addProject(id) ==
    /\ requests < MaxRequests
    /\ requests' = requests + 1
    /\ IF id \in projects
       THEN UNCHANGED <<projects, background>>
       ELSE /\ projects' = projects \cup {id}
            /\ background' = background \cup {[project |-> id, phase |-> "clone"]}
    /\ UNCHANGED <<queue, active, ingestVars, askVars>>

\* project.controller streamIngestionLogs: ingestionQueue.add(job).
streamIngestionLogs(id) ==
    /\ requests < MaxRequests
    /\ requests' = requests + 1
    /\ queue' = Append(queue, Job(requests + 1, id, "queued"))
    /\ UNCHANGED <<projects, active, background, ingestVars, askVars>>

\* PQueue({ concurrency: 1 }): the next job starts when none is running.
QueueStart ==
    /\ active = NoJob
    /\ queue # <<>>
    /\ active' = [Head(queue) EXCEPT !.phase = "lookup"]
    /\ queue' = Tail(queue)
    /\ UNCHANGED <<projects, background, requests, ingestVars, askVars>>

\* The job's getProjectById: an unknown project ends the job.
JobLookup ==
    /\ active.phase = "lookup"
    /\ active' = [active EXCEPT !.phase =
                     IF active.project \in projects THEN "clone" ELSE "done"]
    /\ UNCHANGED <<projects, queue, background, requests, ingestVars, askVars>>

\* startProjectIngestion: cloneOrPullRepo, then runIngestion (syncFiles, then
\* syncGitHistory); an exception of any of them is caught and logged.
NextPhase(phase, ok) ==
    IF ~ok THEN "done"
    ELSE CASE phase = "clone" -> "files"
           [] phase = "files" -> "git"
           [] OTHER -> "done"

JobStep ==
    /\ active.phase \in RunningPhases
    /\ \E ok \in BOOLEAN :
          active' = [active EXCEPT !.phase = NextPhase(active.phase, ok)]
    /\ UNCHANGED <<projects, queue, background, requests, ingestVars, askVars>>

\* The job's promise settles and the queue is free again.
JobDone ==
    /\ active.phase = "done"
    /\ active' = NoJob
    /\ UNCHANGED <<projects, queue, background, requests, ingestVars, askVars>>

BackgroundStep ==
    /\ \E b \in background, ok \in BOOLEAN :
          background' =
              IF NextPhase(b.phase, ok) = "done"
              THEN background \ {b}
              ELSE (background \ {b}) \cup {[b EXCEPT !.phase = NextPhase(b.phase, ok)]}
    /\ UNCHANGED <<projects, queue, active, requests, ingestVars, askVars>>

NextQueue ==
    \/ \E id \in ProjectIds : addProject(id)
    \/ \E id \in ProjectIds : streamIngestionLogs(id)
    \/ QueueStart
    \/ JobLookup
    \/ JobStep
    \/ JobDone
    \/ BackgroundStep


Init == IngestInit /\ QueueInit /\ AskNone

Env ==
    \/ \E p \in Paths, c \in FileContents : WriteFile(p, c)
    \/ \E p \in Paths : RemoveFile(p)
    \/ \E ps \in {{}, {"b.ts"}} : SetIgnore(ps)
    \/ \E c \in CommitUniverse : GitPush(c)
    \/ createTask(ProjectId)

Next ==
    \/ Env
    \/ StartRun
    \/ FilePrune
    \/ FileRead
    \/ FileLookup
    \/ FileDelete
    \/ summarizeFile
    \/ FileEmbedSummary
    \/ FileInsert
    \/ FileChunk
    \/ FileChunkInsert
    \/ FileCommit
    \/ FileSyncDone
    \/ GitLoad
    \/ GitBegin
    \/ GitEmbed
    \/ GitInsert
    \/ GitShow
    \/ GitLink
    \/ GitTaskRef
    \/ GitPatch
    \/ GitGenerate
    \/ GitTask
    \/ GitCommit
    \/ GitSyncDone
    \/ Finally

Spec == Init /\ [][Next]_vars

SpecQueue == Init /\ [][NextQueue]_vars

\* ------------------------------------------- the ingestion log stream job
\* The state of a run and of the store when a sync-stream request arrives:
\* the project has a row, its working tree and its log are not empty, and
\* nothing is indexed yet.
StreamInit ==
    /\ disk = [p \in Paths |-> IF p = "a.ts" THEN <<"txt">> ELSE NoFile]
    /\ gitignore = {}
    /\ gitlog = <<CHOOSE c \in CommitUniverse : c.hash = "feat">>
    /\ committed = EmptyDb
    /\ view = EmptyDb
    /\ seq = [file |-> 1, commit |-> 1, task |-> 1]
    /\ tx = "none"
    /\ conn = "closed"
    /\ pc = "idle"
    /\ todo = <<>>
    /\ loc = NoLoc
    /\ logs = {}
    /\ processedCount = 0
    /\ threw = "none"
    /\ faults = 0
    /\ edits = 0
    /\ runs = 0
    /\ unit = NoUnit
    /\ run = NoRun
    /\ prev = [clean |-> FALSE, changed |-> FALSE]
    /\ inserted = <<>>
    /\ projects = {ProjectId}
    /\ queue = <<>>
    /\ active = NoJob
    /\ background = {}
    /\ requests = 0
    /\ AskNone

\* A sync-stream request for the project; every job starts at most one run.
StreamRequest ==
    /\ requests < MaxRuns
    /\ streamIngestionLogs(ProjectId)

\* Where the job with the given id is.
Queued(id) == \E i \in 1..Len(queue) : queue[i].id = id

Active(id) == active.id = id /\ active # NoJob

Settled(id) == id \in 1..requests /\ ~Queued(id) /\ ~Active(id)

Position == IF tx # "none" THEN "transaction" ELSE "running"

\* Variant: the close handler also ends the job.
ClientClose_Aborts(id) ==
    \/ /\ \E i \in 1..Len(queue) :
             /\ queue[i].id = id
             /\ ~queue[i].ended
             /\ queue' = [queue EXCEPT ![i].ended = TRUE, ![i].closedAt = "queued"]
       /\ UNCHANGED <<projects, active, background, requests, ingestVars, askVars>>
    \/ /\ Active(id)
       /\ ~active.ended
       /\ active' = [active EXCEPT !.ended = TRUE, !.closedAt = Position,
                                   !.phase = "done"]
       /\ UNCHANGED <<projects, queue, background, requests, ingestVars, askVars>>

\* req.on('close'): the client of the job's response went away and the
\* handler ends the response.
ClientClose(id) ==
    \/ /\ \E i \in 1..Len(queue) :
             /\ queue[i].id = id
             /\ ~queue[i].ended
             /\ queue' = [queue EXCEPT ![i].ended = TRUE, ![i].closedAt = "queued"]
       /\ UNCHANGED <<projects, active, background, requests, ingestVars, askVars>>
    \/ /\ Active(id)
       /\ ~active.ended
       /\ active' = [active EXCEPT !.ended = TRUE, !.closedAt = Position]
       /\ UNCHANGED <<projects, queue, background, requests, ingestVars, askVars>>

\* res.write(event) without a test of res.writableEnded.
Write(job, event) ==
    IF job.ended THEN [job EXCEPT !.late = @ \cup {event}]
    ELSE [job EXCEPT !.sent = @ \cup {event}]

\* logger(message): res.write under if (!res.writableEnded).
Log(job, event) ==
    IF job.ended THEN job ELSE [job EXCEPT !.sent = @ \cup {event}]

\* The job's getProjectById throws: control goes to the job's catch block.
JobLookupThrows ==
    /\ active.phase = "lookup"
    /\ active' = [active EXCEPT !.phase = "catch"]
    /\ UNCHANGED <<projects, queue, background, requests, ingestVars, askVars>>

\* startProjectIngestion up to runIngestion: cloneOrPullRepo; its exception
\* is caught and logged by startProjectIngestion, which then returns.
cloneOrPullRepo ==
    /\ active.phase = "clone"
    /\ \E ok \in BOOLEAN :
          active' = IF ok
                    THEN [Log(active, "log") EXCEPT !.phase = "run", !.run = runs + 1]
                    ELSE [Log(active, "log") EXCEPT !.phase = "end"]
    /\ UNCHANGED <<projects, queue, background, requests, ingestVars, askVars>>

\* startProjectIngestion calls runIngestion.
JobRun ==
    /\ active.phase = "run"
    /\ runs < active.run
    /\ StartRun

\* startProjectIngestion has returned: the job logs 'Ingestion complete.'
\* and writes the end event.
JobEnd ==
    /\ \/ active.phase = "end"
       \/ active.phase = "run" /\ runs = active.run /\ pc = "idle"
    /\ active' = [Write(Log(active, "log"), "end") EXCEPT !.phase = "done"]
    /\ UNCHANGED <<projects, queue, background, requests, ingestVars, askVars>>

\* The job's catch block: the FATAL ERROR log line and the error event.
JobCatch ==
    /\ active.phase = "catch"
    /\ active' = [Write(Log(active, "log"), "error") EXCEPT !.phase = "done"]
    /\ UNCHANGED <<projects, queue, background, requests, ingestVars, askVars>>

\* The steps of runIngestion.
RunStep ==
    \/ FilePrune
    \/ FileRead
    \/ FileLookup
    \/ FileDelete
    \/ summarizeFile
    \/ FileEmbedSummary
    \/ FileInsert
    \/ FileChunk
    \/ FileChunkInsert
    \/ FileCommit
    \/ FileSyncDone
    \/ GitLoad
    \/ GitBegin
    \/ GitEmbed
    \/ GitInsert
    \/ GitShow
    \/ GitLink
    \/ GitTaskRef
    \/ GitPatch
    \/ GitGenerate
    \/ GitTask
    \/ GitCommit
    \/ GitSyncDone
    \/ Finally

\* The steps the event loop takes on its own.
JobProgress ==
    \/ QueueStart
    \/ JobLookup
    \/ JobLookupThrows
    \/ cloneOrPullRepo
    \/ JobRun
    \/ RunStep
    \/ JobEnd
    \/ JobCatch
    \/ JobDone

NextStream ==
    \/ StreamRequest
    \/ \E id \in 1..MaxRuns : ClientClose(id)
    \/ JobProgress

SpecStream == StreamInit /\ [][NextStream]_vars

\* The queue starts a waiting job when it is free, and every awaited call of
\* the running job returns.
SpecStreamLive == SpecStream /\ WF_vars(JobProgress)

\* ------------------------------------------ task requests during a run
\* Variant: the number of a new task is the project's largest number plus 1.
createTaskDuringRun_MaxPlusOne(project) ==
    /\ edits < MaxEdits
    /\ edits' = edits + 1
    /\ LET numbers == {t.task_number : t \in committed.tasks \cup view.tasks}
           number == IF numbers = {} THEN 1
                     ELSE (CHOOSE n \in numbers : \A m \in numbers : m <= n) + 1
           row == [task_number |-> number, project_id |-> project,
                   status |-> "open", origin |-> "user",
                   updated_at |-> "created"]
       IN  /\ committed' = [committed EXCEPT !.tasks = @ \cup {row}]
           /\ view' = [view EXCEPT !.tasks = @ \cup {row}]
    /\ seq' = seq
    /\ UNCHANGED <<disk, gitignore, gitlog, tx, conn, pc, todo, loc, logs,
                   processedCount, threw, faults, runs, unit, run, prev,
                   inserted, queueVars, askVars>>

\* task.service createTask on a pooled connection, at any moment of a run:
\* the row is committed at once and the ingestion connection sees it.
createTaskDuringRun(project) ==
    /\ edits < MaxEdits
    /\ edits' = edits + 1
    /\ LET row == [task_number |-> seq.task, project_id |-> project,
                   status |-> "open", origin |-> "user",
                   updated_at |-> "created"]
       IN  /\ committed' = [committed EXCEPT !.tasks = @ \cup {row}]
           /\ view' = [view EXCEPT !.tasks = @ \cup {row}]
    /\ seq' = [seq EXCEPT !.task = @ + 1]
    /\ UNCHANGED <<disk, gitignore, gitlog, tx, conn, pc, todo, loc, logs,
                   processedCount, threw, faults, runs, unit, run, prev,
                   inserted, queueVars, askVars>>

\* task.service deleteTask: DELETE FROM tasks WHERE project_id = $1 AND
\* task_number = $2, on a row no open transaction has changed or refers to,
\* with the ON DELETE CASCADE of knowledge_note_links.task_id.
deleteTask(project, taskNumber) ==
    /\ edits < MaxEdits
    /\ edits' = edits + 1
    /\ \E t \in committed.tasks \cap view.tasks :
          /\ t.project_id = project
          /\ t.task_number = taskNumber
          /\ committed' = [committed EXCEPT !.tasks = @ \ {t}]
          /\ view' = [view EXCEPT !.tasks = @ \ {t}]
    /\ \A l \in cap.links : ~(l.kind = "task" /\ l.target = taskNumber)
    /\ kb' = [kb EXCEPT !.knowledge_note_links =
                  {l \in @ : ~(l.kind = "task" /\ l.target = taskNumber)}]
    /\ UNCHANGED <<disk, gitignore, gitlog, seq, tx, conn, pc, todo, loc, logs,
                   processedCount, threw, faults, runs, unit, run, prev,
                   inserted, queueVars, missing, ask, cap, pool, req, doc, sideVars>>

\* The largest task number the runs and the requests can draw.
TaskNumbers == 1..(MaxEdits + MaxRuns * MaxCommits + MaxFaults)

NextTasks ==
    \/ createTaskDuringRun(ProjectId)
    \/ \E n \in TaskNumbers : deleteTask(ProjectId, n)
    \/ StartRun
    \/ RunStep

SpecTasks == StreamInit /\ [][NextTasks]_vars

\* The statuses a task can have.
TaskStatuses == {"open", "in_progress", "done"}

\* The status field of an update request: absent, the empty string, one of
\* the three statuses, or another string.
StatusInputs == {"undefined", "", "closed"} \cup TaskStatuses

\* if (updates.status)
Truthy(status) == status \notin {"undefined", ""}

\* Variant: updateTask without the test of the status value.
updateTask_NoValidation(project, taskNumber, updates) ==
    /\ requests < MaxRequests
    /\ requests' = requests + 1
    /\ LET existingTasks == {t \in committed.tasks :
                                t.project_id = project /\ t.task_number = taskNumber}
       IN  IF existingTasks = {}
           THEN /\ req' = [updates EXCEPT !.error = "Task not found"]
                /\ Works
                /\ UNCHANGED <<committed, view>>
           ELSE IF ~Truthy(updates.status) /\ ~updates.title
           THEN /\ req' = updates
                /\ Works
                /\ UNCHANGED <<committed, view>>
           ELSE \/ /\ updates.title
                   /\ Fails
                   /\ req' = [updates EXCEPT !.error = "embedding"]
                   /\ UNCHANGED <<committed, view>>
                \/ /\ Works
                   /\ req' = updates
                   /\ \E t \in existingTasks \cap view.tasks :
                         LET row == [t EXCEPT
                                       !.status = IF Truthy(updates.status)
                                                  THEN updates.status ELSE @,
                                       !.updated_at = "now"]
                         IN  /\ committed' = [committed EXCEPT !.tasks = (@ \ {t}) \cup {row}]
                             /\ view' = [view EXCEPT !.tasks = (@ \ {t}) \cup {row}]
    /\ UNCHANGED <<disk, gitignore, gitlog, seq, tx, conn, pc, todo, loc, logs,
                   processedCount, threw, edits, runs, unit, run, prev,
                   inserted, projects, queue, active, background, kb, missing,
                   ask, cap, pool, doc, sideVars>>

\* task.service updateTask on a pooled connection, at any moment of a run:
\* the SELECT of the task, the test of the status, the embedding of a new
\* title, and the UPDATE with updated_at = NOW(), which waits for a row that
\* an open transaction has changed.
updateTask(project, taskNumber, updates) ==
    /\ requests < MaxRequests
    /\ requests' = requests + 1
    /\ LET existingTasks == {t \in committed.tasks :
                                t.project_id = project /\ t.task_number = taskNumber}
       IN  IF existingTasks = {}
           THEN /\ req' = [updates EXCEPT !.error = "Task not found"]
                /\ Works
                /\ UNCHANGED <<committed, view>>
           ELSE IF Truthy(updates.status) /\ updates.status \notin TaskStatuses
           THEN /\ req' = [updates EXCEPT !.error = "Invalid task status"]
                /\ Works
                /\ UNCHANGED <<committed, view>>
           ELSE IF ~Truthy(updates.status) /\ ~updates.title
           THEN /\ req' = updates
                /\ Works
                /\ UNCHANGED <<committed, view>>
           ELSE \/ /\ updates.title
                   /\ Fails
                   /\ req' = [updates EXCEPT !.error = "embedding"]
                   /\ UNCHANGED <<committed, view>>
                \/ /\ Works
                   /\ req' = updates
                   /\ \E t \in existingTasks \cap view.tasks :
                         LET row == [t EXCEPT
                                       !.status = IF Truthy(updates.status)
                                                  THEN updates.status ELSE @,
                                       !.updated_at = "now"]
                         IN  /\ committed' = [committed EXCEPT !.tasks = (@ \ {t}) \cup {row}]
                             /\ view' = [view EXCEPT !.tasks = (@ \ {t}) \cup {row}]
    /\ UNCHANGED <<disk, gitignore, gitlog, seq, tx, conn, pc, todo, loc, logs,
                   processedCount, threw, edits, runs, unit, run, prev,
                   inserted, projects, queue, active, background, kb, missing,
                   ask, cap, pool, doc, sideVars>>

\* A project whose log holds a commit that gets a retrospective task and a
\* later commit that closes task 1.
StatusInit ==
    /\ disk = [p \in Paths |-> IF p = "a.ts" THEN <<"txt">> ELSE NoFile]
    /\ gitignore = {}
    /\ gitlog = <<CHOOSE c \in CommitUniverse : c.hash = "fix",
                  CHOOSE c \in CommitUniverse : c.hash = "feat">>
    /\ committed = EmptyDb
    /\ view = EmptyDb
    /\ seq = [file |-> 1, commit |-> 1, task |-> 1]
    /\ tx = "none"
    /\ conn = "closed"
    /\ pc = "idle"
    /\ todo = <<>>
    /\ loc = NoLoc
    /\ logs = {}
    /\ processedCount = 0
    /\ threw = "none"
    /\ faults = 0
    /\ edits = MaxEdits - 1
    /\ runs = MaxRuns - 1
    /\ unit = NoUnit
    /\ run = NoRun
    /\ prev = [clean |-> FALSE, changed |-> FALSE]
    /\ inserted = <<>>
    /\ projects = {ProjectId}
    /\ queue = <<>>
    /\ active = NoJob
    /\ background = {}
    /\ requests = MaxRequests - 2
    /\ AskNone

NextStatus ==
    \/ createTaskDuringRun(ProjectId)
    \/ \E status \in StatusInputs, title \in BOOLEAN :
          updateTask(ProjectId, 1, [NoReq EXCEPT !.status = status, !.title = title])
    \/ StartRun
    \/ RunStep

SpecStatus == StatusInit /\ [][NextStatus]_vars

\* ------------------------------------------------------------ chunkText
\* A string is a sequence of pieces: "w" a word of 5 characters, "W" a run
\* of 25 characters without a blank line, "ws" a blank line.
PieceLength(piece) == CASE piece = "w" -> 5 [] piece = "W" -> 25 [] OTHER -> 2

RECURSIVE StringLength(_)
StringLength(s) == IF s = <<>> THEN 0 ELSE PieceLength(Head(s)) + StringLength(Tail(s))

\* The top-level nodes remark().parse can return: headings of depth 1 to 4,
\* a short and a long paragraph, a code block with a blank line in its
\* value, and a thematic break, which has no text.
NodeUniverse ==
    {[type |-> "heading", depth |-> d, text |-> <<"w">>] : d \in 1..4}
    \cup {[type |-> "paragraph", depth |-> 0, text |-> t] : t \in {<<"w">>, <<"W">>}}
    \cup {[type |-> "code", depth |-> 0, text |-> <<"W", "ws", "W">>],
          [type |-> "thematicBreak", depth |-> 0, text |-> <<>>]}

MaxNodes == 3

RECURSIVE Documents(_)
Documents(n) ==
    IF n = 0 THEN {<<>>}
    ELSE Documents(n - 1)
         \cup {Append(d, x) : d \in {e \in Documents(n - 1) : Len(e) = n - 1},
                              x \in NodeUniverse}

\* The two texts of core/textChunker.ts.
Builds == {"src/core/textChunker.ts", "part_004"}

\* mdast-util-to-string of a root with these children: their text, joined
\* without a separator.
RECURSIVE toString(_)
toString(children) ==
    IF children = <<>> THEN <<>> ELSE Head(children).text \o toString(Tail(children))

\* content.split(/\n\s*\n/)
RECURSIVE SplitParagraphs(_, _)
SplitParagraphs(s, piece) ==
    IF s = <<>> THEN <<piece>>
    ELSE IF Head(s) = "ws" THEN <<piece>> \o SplitParagraphs(Tail(s), <<>>)
         ELSE SplitParagraphs(Tail(s), Append(piece, Head(s)))

MinParagraphLength == 20

LongEnough(chunk) == StringLength(Trim(chunk)) > MinParagraphLength

NonBlank(chunk) == StringLength(Trim(chunk)) > 0

chunkByParagraphs(s) ==
    LET pieces == SplitParagraphs(s, <<>>)
    IN  SelectSeq([i \in 1..Len(pieces) |-> Trim(pieces[i])], LongEnough)

\* Variant: only headings of depth 1 and 2 split, in both texts.
StartsChunk_TwoLevels(build, node) ==
    node.type = "heading" /\ node.depth \in {1, 2}

\* node.type === 'heading' && (node.depth === 1 || node.depth === 2), and
\* node.type === 'heading' && node.depth <= 3
StartsChunk(build, node) ==
    /\ node.type = "heading"
    /\ IF build = "part_004" THEN node.depth <= 3 ELSE node.depth \in {1, 2}

\* tree.children.forEach and the push of the last chunk.
RECURSIVE HeadingChunks(_, _, _, _)
HeadingChunks(build, children, chunks, currentChunk) ==
    IF children = <<>>
    THEN IF Len(currentChunk) > 0 THEN Append(chunks, toString(currentChunk)) ELSE chunks
    ELSE IF StartsChunk(build, Head(children))
         THEN HeadingChunks(build, Tail(children),
                            IF Len(currentChunk) > 0
                            THEN Append(chunks, toString(currentChunk)) ELSE chunks,
                            <<Head(children)>>)
         ELSE HeadingChunks(build, Tail(children), chunks,
                            Append(currentChunk, Head(children)))

chunkByHeadings(build, children) ==
    LET chunks == HeadingChunks(build, children, <<>>, <<>>)
    IN  IF Len(chunks) = 1 /\ \E i \in 1..Len(children) : children[i].type # "heading"
        THEN chunkByParagraphs(chunks[1])
        ELSE SelectSeq(chunks, NonBlank)

\* chunkText; text that is empty after trim() is the text without a node.
chunkText(build, children) ==
    IF children = <<>> THEN <<>> ELSE chunkByHeadings(build, children)

\* A text handed to one of the two chunkers.
TextInit ==
    /\ disk = [p \in Paths |-> NoFile]
    /\ gitignore = {}
    /\ gitlog = <<>>
    /\ committed = EmptyDb
    /\ view = EmptyDb
    /\ seq = [file |-> 1, commit |-> 1, task |-> 1]
    /\ tx = "none"
    /\ conn = "closed"
    /\ pc = "idle"
    /\ todo = <<>>
    /\ loc = NoLoc
    /\ logs = {}
    /\ processedCount = 0
    /\ threw = "none"
    /\ faults = 0
    /\ edits = 0
    /\ runs = 0
    /\ unit = NoUnit
    /\ run = NoRun
    /\ prev = [clean |-> FALSE, changed |-> FALSE]
    /\ inserted = <<>>
    /\ projects = {ProjectId}
    /\ queue = <<>>
    /\ active = NoJob
    /\ background = {}
    /\ requests = 0
    /\ kb = EmptyKb
    /\ missing = {}
    /\ ask = NoAsk
    /\ cap = NoCap
    /\ pool = 0
    /\ req = NoReq
    /\ SideNone
    /\ \E build \in Builds, nodes \in Documents(MaxNodes) :
          doc = [build |-> build, nodes |-> nodes, pc |-> "call", chunks |-> <<>>]

ChunkTextCall ==
    /\ doc.pc = "call"
    /\ doc' = [doc EXCEPT !.pc = "returned", !.chunks = chunkText(doc.build, doc.nodes)]
    /\ UNCHANGED <<ingestVars, queueVars, kb, missing, ask, cap, pool, req, sideVars>>

SpecText == TextInit /\ [][ChunkTextCall]_vars

\* ------------------------------------------- questions and conversations
\* The tables a retrieval sub-search reads.
Tables ==
    {"knowledge_notes", "tasks", "commits", "document_chunks", "indexed_files",
     "code_chunks"}

\* The LIMIT of each sub-search of getAnswerStream.
NoteLimit == 2

TaskLimit == 3

CommitLimit == 3

DocumentLimit == 3

FileLimit == 5

ChunkLimit == 10

\* The conversation the requests are about.
ConversationId == 1

\* The files of a project with more files than the file search returns.
AskPaths == <<"f1.ts", "f2.ts", "f3.ts", "f4.ts", "f5.ts", "f6.ts">>

AskContent(i) == IF i = 1 THEN <<"fn", "fn", "fn">> ELSE <<"fn", "txt", "fn">>

\* Commit hashes as character sequences; the first two agree on their first
\* seven characters.
AskHashes ==
    << <<"a", "b", "c", "1", "2", "3", "4", "e">>,
       <<"a", "b", "c", "1", "2", "3", "4", "f">>,
       <<"d", "9", "9", "0", "0", "0", "0", "1">> >>

\* String.prototype.substring(from, to)
Substring(s, from, to) ==
    SubSeq(s, from + 1, IF to < Len(s) THEN to ELSE Len(s))

\* A store as ingestion runs leave it: six indexed files of the project with
\* their chunks, a file of another project, two tasks and three commits.
AskStore ==
    [indexed_files |->
        {[id |-> i, project_id |-> ProjectId, path |-> AskPaths[i],
          content_hash |-> Sha256(AskContent(i)), summary |-> "summary"] :
            i \in 1..Len(AskPaths)}
        \cup {[id |-> Len(AskPaths) + 1, project_id |-> ProjectId + 1,
               path |-> AskPaths[1], content_hash |-> Sha256(AskContent(1)),
               summary |-> "summary"]},
     code_chunks |->
        UNION {ChunkRowsOf(i, chunkCodeWithAST(AskContent(i))) :
                  i \in 1..(Len(AskPaths) + 1)},
     commits |->
        {[id |-> i, project_id |-> ProjectId, commit_hash |-> AskHashes[i],
          message |-> <<"add", "parser">>] : i \in 1..Len(AskHashes)},
     commit_files |-> {},
     tasks |->
        {[task_number |-> n, project_id |-> ProjectId, status |-> "open",
          origin |-> "user", updated_at |-> "created"] : n \in 1..2}]

\* A store with one indexed file, one commit and one task.
SmallStore ==
    [indexed_files |->
        {[id |-> 1, project_id |-> ProjectId, path |-> AskPaths[1],
          content_hash |-> Sha256(<<"txt">>), summary |-> "summary"]},
     code_chunks |-> ChunkRowsOf(1, chunkCodeWithAST(<<"txt">>)),
     commits |->
        {[id |-> 1, project_id |-> ProjectId, commit_hash |-> AskHashes[3],
          message |-> <<"add", "parser">>]},
     commit_files |-> {},
     tasks |->
        {[task_number |-> 1, project_id |-> ProjectId, status |-> "open",
          origin |-> "user", updated_at |-> "created"]}]

\* Two chunks of one document of the project and one knowledge note.
AskKb ==
    [EmptyKb EXCEPT
        !.knowledge_notes =
            {[id |-> 1, project_id |-> ProjectId, conversation_id |-> 0,
              note_summary |-> "decision"]},
        !.document_chunks =
            {[id |-> i, document_id |-> 1, file_name |-> "design.md",
              project_id |-> ProjectId] : i \in 1..2},
        !.noteSeq = 2]

\* The variables the question and conversation requests leave alone.
askFrame ==
    <<disk, gitignore, gitlog, tx, conn, pc, todo, loc, logs, processedCount,
      threw, runs, unit, run, prev, inserted, projects, queue, active,
      background>>

RECURSIVE SetToSeq(_)
SetToSeq(S) ==
    IF S = {} THEN <<>>
    ELSE LET x == CHOOSE y \in S : TRUE IN <<x>> \o SetToSeq(S \ {x})

\* ORDER BY embedding <=> $2 LIMIT k: the k rows nearest to the question, any
\* k of them as far as the model of the store goes.
TopK(rows, k) ==
    {S \in SUBSET rows :
        Cardinality(S) = IF Cardinality(rows) < k THEN Cardinality(rows) ELSE k}

\* ---- createConversation / addMessageToConversation
\* conversation.controller createConversation: the conversation and its
\* first user message, then streamResponse.
createConversation ==
    /\ ask.pc = "idle"
    /\ requests < MaxRequests
    /\ kb.messages = <<>>
    /\ requests' = requests + 1
    /\ kb' = [kb EXCEPT !.messages = <<UserMessage>>]
    /\ ask' = [NoAsk EXCEPT !.pc = "messages", !.kind = "answer"]
    /\ UNCHANGED <<askFrame, committed, view, seq, faults, edits, missing, cap,
                   pool, req, doc, sideVars>>

\* conversation.controller addMessageToConversation: addUserMessage, then
\* streamResponse.
addMessageToConversation ==
    /\ ask.pc = "idle"
    /\ requests < MaxRequests
    /\ kb.messages # <<>>
    /\ requests' = requests + 1
    /\ kb' = [kb EXCEPT !.messages = Append(@, UserMessage)]
    /\ ask' = [NoAsk EXCEPT !.pc = "messages", !.kind = "answer"]
    /\ UNCHANGED <<askFrame, committed, view, seq, faults, edits, missing, cap,
                   pool, req, doc, sideVars>>

\* req.on('close') of streamResponse: res.end().
AskClientClose ==
    /\ ask.kind = "answer"
    /\ ask.pc # "idle"
    /\ ~ask.ended
    /\ ask' = [ask EXCEPT !.ended = TRUE]
    /\ UNCHANGED <<askFrame, committed, view, seq, faults, edits, requests, kb,
                   missing, cap, pool, req, doc, sideVars>>

\* res.write(event) of streamResponse without a test of res.writableEnded.
AskWrite(a, event) ==
    IF a.ended THEN [a EXCEPT !.late = @ \cup {event}]
    ELSE [a EXCEPT !.sent = @ \cup {event}]

\* streamResponse: getConversationMessages, the question and the history.
AskMessages ==
    /\ ask.pc = "messages"
    /\ \/ /\ Fails
          /\ ask' = [ask EXCEPT !.pc = "catch", !.error = "db"]
       \/ /\ Works
          /\ ask' = IF Len(kb.messages) = 0
                    THEN [ask EXCEPT !.pc = "catch", !.error = "empty_conversation"]
                    ELSE [ask EXCEPT !.pc = "connect",
                                     !.history = Len(kb.messages) - 1]
    /\ UNCHANGED <<askFrame, committed, view, seq, edits, requests, kb,
                   missing, cap, pool, req, doc, sideVars>>

\* An exception leaves getAnswerStream: the finally block releases the
\* client it holds.
AskThrow(error) ==
    /\ ask' = [ask EXCEPT !.pc = "catch", !.error = error, !.client = FALSE]
    /\ pool' = IF ask.client THEN pool - 1 ELSE pool

\* getAnswerStream: pool.connect() and getEmbedding(latestQuestion).
AskConnect ==
    /\ ask.pc = "connect"
    /\ \/ /\ Fails
          /\ ask' = [ask EXCEPT !.pc = "catch", !.error = "embedding"]
          /\ pool' = pool
       \/ /\ Works
          /\ ask' = [ask EXCEPT !.pc = "notes", !.client = TRUE]
          /\ pool' = pool + 1
    /\ UNCHANGED <<req, doc, sideVars, askFrame, committed, view, seq, edits, requests, kb,
                   missing, cap>>

\* The knowledge search, with its catch of error 42P01 (undefined table).
AskNotes ==
    /\ ask.pc = "notes"
    /\ IF "knowledge_notes" \in missing
       THEN /\ Works
            /\ ask' = [ask EXCEPT !.pc = "tasks",
                                  !.warned = @ \cup {"knowledge_notes"}]
            /\ pool' = pool
       ELSE \/ Fails /\ AskThrow("db")
            \/ /\ Works
               /\ \E rows \in TopK({n \in kb.knowledge_notes : n.project_id = ProjectId},
                                   NoteLimit) :
                     ask' = [ask EXCEPT
                        !.pc = "tasks",
                        !.context = IF rows = {} THEN @ ELSE @ \cup {"notes"},
                        !.sources = @ \o SetToSeq({[type |-> "knowledge", id |-> n.id] :
                                                      n \in rows})]
               /\ pool' = pool
    /\ UNCHANGED <<req, doc, sideVars, askFrame, committed, view, seq, edits, requests, kb,
                   missing, cap>>

\* The task search; nothing catches its errors.
AskTasks ==
    /\ ask.pc = "tasks"
    /\ IF "tasks" \in missing
       THEN Works /\ AskThrow("42P01")
       ELSE \/ Fails /\ AskThrow("db")
            \/ /\ Works
               /\ \E rows \in TopK(ProjectTasks(committed), TaskLimit) :
                     ask' = [ask EXCEPT
                        !.pc = "commits",
                        !.context = IF rows = {} THEN @ ELSE @ \cup {"tasks"},
                        !.sources = @ \o SetToSeq({[type |-> "task", id |-> t.task_number] :
                                                      t \in rows})]
               /\ pool' = pool
    /\ UNCHANGED <<req, doc, sideVars, askFrame, committed, view, seq, edits, requests, kb,
                   missing, cap>>

\* The commit search; the id of a commit source is
\* commit_hash.substring(0, 7).
AskCommits ==
    /\ ask.pc = "commits"
    /\ IF "commits" \in missing
       THEN Works /\ AskThrow("42P01")
       ELSE \/ Fails /\ AskThrow("db")
            \/ /\ Works
               /\ \E rows \in TopK(ProjectCommits(committed), CommitLimit) :
                     ask' = [ask EXCEPT
                        !.pc = "documents",
                        !.context = IF rows = {} THEN @ ELSE @ \cup {"commits"},
                        !.sources = @ \o
                            [i \in 1..Cardinality(rows) |->
                                [type |-> "commit",
                                 id |-> Substring(SetToSeq(rows)[i].commit_hash, 0, 7)]]]
               /\ pool' = pool
    /\ UNCHANGED <<req, doc, sideVars, askFrame, committed, view, seq, edits, requests, kb,
                   missing, cap>>

\* The document search, with its catch of error 42P01; one source per file
\* name.
AskDocuments ==
    /\ ask.pc = "documents"
    /\ IF "document_chunks" \in missing
       THEN /\ Works
            /\ ask' = [ask EXCEPT !.pc = "files",
                                  !.warned = @ \cup {"document_chunks"}]
            /\ pool' = pool
       ELSE \/ Fails /\ AskThrow("db")
            \/ /\ Works
               /\ \E rows \in TopK({d \in kb.document_chunks : d.project_id = ProjectId},
                                   DocumentLimit) :
                     ask' = [ask EXCEPT
                        !.pc = "files",
                        !.context = IF rows = {} THEN @ ELSE @ \cup {"documents"},
                        !.sources = @ \o SetToSeq({[type |-> "document", id |-> d.file_name] :
                                                      d \in rows})]
               /\ pool' = pool
    /\ UNCHANGED <<req, doc, sideVars, askFrame, committed, view, seq, edits, requests, kb,
                   missing, cap>>

\* SELECT id, path FROM indexed_files WHERE project_id = $1 ORDER BY ... LIMIT 5
FileCandidates(db, project) ==
    {[id |-> f.id, path |-> f.path] :
        f \in {g \in db.indexed_files : g.project_id = project}}

\* Variant: the chunk query without the file_id filter.
ChunkCandidates_AllFiles(db, files) == db.code_chunks

\* SELECT ... FROM code_chunks WHERE file_id = ANY($1::int[])
ChunkCandidates(db, files) ==
    {c \in db.code_chunks : c.file_id \in {f.id : f \in files}}

\* relevantFiles.find(f => f.id === c.file_id)?.path, undefined when no file
\* has the id.
ResolvedPath(files, chunk) ==
    IF \E f \in files : f.id = chunk.file_id
    THEN (CHOOSE f \in files : f.id = chunk.file_id).path
    ELSE "undefined"

\* The file-summary search, first stage of the code search.
AskFiles ==
    /\ ask.pc = "files"
    /\ IF "indexed_files" \in missing
       THEN Works /\ AskThrow("42P01")
       ELSE \/ Fails /\ AskThrow("db")
            \/ /\ Works
               /\ \E rows \in TopK(FileCandidates(committed, ProjectId), FileLimit) :
                     ask' = [ask EXCEPT !.pc = IF rows = {} THEN "check" ELSE "chunks",
                                        !.files = rows]
               /\ pool' = pool
    /\ UNCHANGED <<req, doc, sideVars, askFrame, committed, view, seq, edits, requests, kb,
                   missing, cap>>

\* The chunk search among the files of the first stage, and the code sources:
\* the distinct resolved paths.
AskChunks ==
    /\ ask.pc = "chunks"
    /\ IF "code_chunks" \in missing
       THEN Works /\ AskThrow("42P01")
       ELSE \/ Fails /\ AskThrow("db")
            \/ /\ Works
               /\ \E rows \in TopK(ChunkCandidates(committed, ask.files), ChunkLimit) :
                     LET paths == {ResolvedPath(ask.files, c) : c \in rows} \ {"undefined"}
                     IN  ask' = [ask EXCEPT
                            !.pc = "check",
                            !.chunks = rows,
                            !.stale = ask.files # ask.files \cap
                                         FileCandidates(committed, ProjectId),
                            !.code = {ResolvedPath(ask.files, c) : c \in rows},
                            !.context = IF rows = {} THEN @ ELSE @ \cup {"code"},
                            !.sources = @ \o SetToSeq({[type |-> "code", id |-> p] :
                                                          p \in paths})]
               /\ pool' = pool
    /\ UNCHANGED <<req, doc, sideVars, askFrame, committed, view, seq, edits, requests, kb,
                   missing, cap>>

\* Variant: the test looks at the context only.
NoContext_IgnoresHistory(context, history) == context = {}

\* !contextString.trim() && history.length === 0
NoContext(context, history) == context = {} /\ history = 0

\* The no-context test, then client.release().
AskCheck ==
    /\ ask.pc = "check"
    /\ Works
    /\ IF NoContext(ask.context, ask.history)
       THEN AskThrow("no_context")
       ELSE /\ ask' = [ask EXCEPT !.pc = "complete", !.client = FALSE]
            /\ pool' = pool - 1
    /\ UNCHANGED <<req, doc, sideVars, askFrame, committed, view, seq, edits, requests, kb,
                   missing, cap>>

\* getChatCompletionStream(messages) and the return of the stream and the
\* sources.
AskComplete ==
    /\ ask.pc = "complete"
    /\ \/ Fails /\ AskThrow("completion")
       \/ /\ Works
          /\ ask' = [ask EXCEPT !.pc = "sources", !.completion = TRUE,
                                !.returned = TRUE]
          /\ pool' = pool
    /\ UNCHANGED <<req, doc, sideVars, askFrame, committed, view, seq, edits, requests, kb,
                   missing, cap>>

\* streamResponse: the sources event.
AskSources ==
    /\ ask.pc = "sources"
    /\ ask' = [AskWrite(ask, "sources") EXCEPT !.pc = "tokens"]
    /\ UNCHANGED <<askFrame, committed, view, seq, faults, edits, requests, kb,
                   missing, cap, pool, req, doc, sideVars>>

\* One turn of the for await loop: the stream ends, throws, or yields a chunk,
\* which is written as a token unless the response has ended.
AskToken ==
    /\ ask.pc = "tokens"
    /\ \/ /\ Fails
          /\ ask' = [ask EXCEPT !.pc = "catch", !.error = "stream"]
       \/ /\ Works
          /\ ask' = [ask EXCEPT !.pc = "save"]
       \/ /\ Works
          /\ ask.tokens < 1
          /\ ask' = IF ask.ended
                    THEN [ask EXCEPT !.pc = "save"]
                    ELSE [ask EXCEPT !.sent = @ \cup {"token"}, !.tokens = @ + 1]
    /\ UNCHANGED <<askFrame, committed, view, seq, edits, requests, kb,
                   missing, cap, pool, req, doc, sideVars>>

\* addAssistantMessage(conversationId, fullResponse, sources)
AskSave ==
    /\ ask.pc = "save"
    /\ \/ /\ Fails
          /\ ask' = [ask EXCEPT !.pc = "catch", !.error = "db"]
          /\ kb' = kb
       \/ /\ Works
          /\ kb' = [kb EXCEPT !.messages = Append(@, AssistantMessage(ask.sources))]
          /\ ask' = [ask EXCEPT !.pc = "end"]
    /\ UNCHANGED <<askFrame, committed, view, seq, edits, requests, missing,
                   cap, pool, req, doc, sideVars>>

\* The end event and res.end(), under if (!res.writableEnded).
AskEnd ==
    /\ ask.pc = "end"
    /\ ask' = IF ask.ended THEN [ask EXCEPT !.pc = "idle"]
              ELSE [ask EXCEPT !.pc = "idle", !.sent = @ \cup {"end"}, !.ended = TRUE]
    /\ UNCHANGED <<askFrame, committed, view, seq, faults, edits, requests, kb,
                   missing, cap, pool, req, doc, sideVars>>

\* The catch block of streamResponse: the error event and res.end(), under
\* if (!res.writableEnded).
AskCatch ==
    /\ ask.pc = "catch"
    /\ ask.kind = "answer"
    /\ ask' = IF ask.ended THEN [ask EXCEPT !.pc = "idle"]
              ELSE [ask EXCEPT !.pc = "idle", !.sent = @ \cup {"error"}, !.ended = TRUE]
    /\ UNCHANGED <<askFrame, committed, view, seq, faults, edits, requests, kb,
                   missing, cap, pool, req, doc, sideVars>>

\* ---- getContextBundleForTask
\* An exception leaves getContextBundleForTask: the finally block releases
\* the client.
BundleThrow(error) ==
    /\ ask' = [ask EXCEPT !.pc = "idle", !.error = error, !.client = FALSE]
    /\ pool' = IF ask.client THEN pool - 1 ELSE pool

\* pool.connect(), the target task and the searches before the code search.
getContextBundleForTask(taskNumber) ==
    /\ ask.pc = "idle"
    /\ requests < MaxRequests
    /\ requests' = requests + 1
    /\ IF {"tasks", "commits", "document_chunks"} \cap missing # {}
       THEN /\ ask' = [NoAsk EXCEPT !.kind = "bundle", !.error = "42P01"]
            /\ pool' = pool
       ELSE IF ~\E t \in ProjectTasks(committed) : t.task_number = taskNumber
       THEN /\ ask' = [NoAsk EXCEPT !.kind = "bundle", !.error = "task_not_found"]
            /\ pool' = pool
       ELSE /\ ask' = [NoAsk EXCEPT !.kind = "bundle", !.pc = "bundle_files",
                                    !.client = TRUE]
            /\ pool' = pool + 1
    /\ UNCHANGED <<req, doc, sideVars, askFrame, committed, view, seq, faults, edits, kb, missing,
                   cap>>

\* The file-summary search of the bundle.
BundleFiles ==
    /\ ask.pc = "bundle_files"
    /\ IF "indexed_files" \in missing
       THEN Works /\ BundleThrow("42P01")
       ELSE \/ Fails /\ BundleThrow("db")
            \/ /\ Works
               /\ \E rows \in TopK(FileCandidates(committed, ProjectId), FileLimit) :
                     IF rows = {}
                     THEN /\ ask' = [ask EXCEPT !.pc = "idle", !.returned = TRUE,
                                                !.client = FALSE]
                          /\ pool' = pool - 1
                     ELSE /\ ask' = [ask EXCEPT !.pc = "bundle_chunks", !.files = rows]
                          /\ pool' = pool
    /\ UNCHANGED <<req, doc, sideVars, askFrame, committed, view, seq, edits, requests, kb,
                   missing, cap>>

\* The chunk search of the bundle; relatedCode names 'Unknown file' for a
\* chunk whose file is not found; the finally block releases the client.
BundleChunks ==
    /\ ask.pc = "bundle_chunks"
    /\ IF "code_chunks" \in missing
       THEN Works /\ BundleThrow("42P01")
       ELSE \/ Fails /\ BundleThrow("db")
            \/ /\ Works
               /\ \E rows \in TopK(ChunkCandidates(committed, ask.files), ChunkLimit) :
                     ask' = [ask EXCEPT
                        !.pc = "idle", !.returned = TRUE, !.client = FALSE,
                        !.chunks = rows,
                        !.stale = ask.files # ask.files \cap
                                     FileCandidates(committed, ProjectId),
                        !.code = {IF ResolvedPath(ask.files, c) = "undefined"
                                  THEN "Unknown file"
                                  ELSE ResolvedPath(ask.files, c) : c \in rows}]
               /\ pool' = pool - 1
    /\ UNCHANGED <<req, doc, sideVars, askFrame, committed, view, seq, edits, requests, kb,
                   missing, cap>>

\* ---- ingestion as the other connections see it
\* knowledge_note_links.file_id REFERENCES indexed_files(id) ON DELETE
\* CASCADE: the link rows left when the file rows of a path are deleted.
LinksWithoutFile(links, p) ==
    {l \in links :
        ~(l.kind = "file"
          /\ \E f \in FileRows(committed, ProjectId, p) : f.id = l.target)}

\* The row lock of the foreign key: a file row that a link of an open
\* transaction refers to cannot be deleted before that transaction ends.
FileUnlocked(p) ==
    \A l \in cap.links :
        ~(l.kind = "file"
          /\ \E f \in FileRows(committed, ProjectId, p) : f.id = l.target)

\* A file transaction of syncFiles commits: the rows of the path are replaced
\* by a row with a new id and the chunks of the new content.
ReindexFile(p, content) ==
    /\ edits < MaxEdits
    /\ edits' = edits + 1
    /\ {"indexed_files", "code_chunks"} \cap missing = {}
    /\ LET db == DeleteFiles(committed, ProjectId, {p})
           next == [db EXCEPT
                      !.indexed_files = @ \cup
                          {[id |-> seq.file, project_id |-> ProjectId, path |-> p,
                            content_hash |-> Sha256(content), summary |-> "summary"]},
                      !.code_chunks = @ \cup
                          ChunkRowsOf(seq.file, chunkCodeWithAST(content))]
       IN  committed' = next /\ view' = next
    /\ seq' = [seq EXCEPT !.file = @ + 1]
    /\ FileUnlocked(p)
    /\ kb' = [kb EXCEPT !.knowledge_note_links = LinksWithoutFile(@, p)]
    /\ UNCHANGED <<askFrame, faults, requests, missing, ask, cap, pool, req, doc, sideVars>>

\* The prune statement of syncFiles for a path that left the disk.
PruneFile(p) ==
    /\ edits < MaxEdits
    /\ edits' = edits + 1
    /\ {"indexed_files", "code_chunks"} \cap missing = {}
    /\ FileRows(committed, ProjectId, p) # {}
    /\ LET db == DeleteFiles(committed, ProjectId, {p})
       IN  committed' = db /\ view' = db
    /\ FileUnlocked(p)
    /\ kb' = [kb EXCEPT !.knowledge_note_links = LinksWithoutFile(@, p)]
    /\ UNCHANGED <<askFrame, seq, faults, requests, missing, ask, cap, pool, req, doc, sideVars>>

\* ---- captureKnowledgeFromConversation
\* What the completion call of the capture can answer.
SummaryResponses == {"empty", "NULL", "null", "decision"}

\* !summary || summary.trim().toUpperCase() === 'NULL'
NoKnowledge(summary) == summary = "empty" \/ ToUpperCase(summary) = "NULL"

\* messages.length < 2
TooShort(messages) == Len(messages) < 2

\* pool.connect(), getConversationMessages and the length test.
captureKnowledge ==
    /\ cap.pc = "idle"
    /\ requests < MaxRequests
    /\ requests' = requests + 1
    /\ IF TooShort(kb.messages)
       THEN /\ cap' = [NoCap EXCEPT !.messages = kb.messages, !.result = "null"]
            /\ pool' = pool
       ELSE /\ cap' = [NoCap EXCEPT !.messages = kb.messages, !.pc = "summarize"]
            /\ pool' = pool + 1
    /\ UNCHANGED <<req, doc, sideVars, askFrame, committed, view, seq, faults, edits, kb, missing,
                   ask>>

\* getChatCompletion on the transcript; a failure goes to the catch block:
\* ROLLBACK, release, rethrow.
CaptureSummarize ==
    /\ cap.pc = "summarize"
    /\ \/ /\ Fails
          /\ cap' = [cap EXCEPT !.pc = "idle", !.called = TRUE, !.result = "error"]
          /\ pool' = pool - 1
       \/ /\ Works
          /\ \E summary \in SummaryResponses :
                IF NoKnowledge(summary)
                THEN /\ cap' = [cap EXCEPT !.pc = "idle", !.called = TRUE,
                                           !.summary = summary, !.result = "null"]
                     /\ pool' = pool - 1
                ELSE /\ cap' = [cap EXCEPT !.pc = "note", !.called = TRUE,
                                           !.summary = summary]
                     /\ pool' = pool
    /\ UNCHANGED <<req, doc, sideVars, askFrame, committed, view, seq, edits, requests, kb,
                   missing, ask>>

\* The sources of the assistant messages, in message order.
RECURSIVE AllSources(_)
AllSources(messages) ==
    IF messages = <<>> THEN <<>>
    ELSE (IF Head(messages).role = "assistant" THEN Head(messages).sources ELSE <<>>)
         \o AllSources(Tail(messages))

\* Variant: every source is kept.
UniqueSources_KeepsDuplicates(sources) == sources

\* Array.from(new Map(allSources.map(s => [key, s])).values()) with the key
\* `${s.type}:${s.id}`: one source per key, in the order in which the keys
\* first appear.
UniqueSources(sources) ==
    LET SameKey(s, t) == s.type = t.type /\ s.id = t.id
        first == {i \in 1..Len(sources) :
                     \A j \in 1..(i - 1) : ~SameKey(sources[j], sources[i])}
        RECURSIVE Pick(_)
        Pick(i) == IF i > Len(sources) THEN <<>>
                   ELSE (IF i \in first THEN <<sources[i]>> ELSE <<>>) \o Pick(i + 1)
    IN  Pick(1)

\* The rows a source's lookup returns: SELECT id FROM indexed_files WHERE path
\* = $1 AND project_id = $2 for code, SELECT id FROM tasks WHERE task_number =
\* $1 AND project_id = $2 for a task (a task row is identified by its number),
\* no query for any other type.
Lookup(source, db) ==
    CASE source.type = "code" ->
            {[kind |-> "file", target |-> f.id] :
                f \in {g \in db.indexed_files :
                         g.project_id = ProjectId /\ g.path = source.id}}
      [] source.type = "task" ->
            {[kind |-> "task", target |-> t.task_number] :
                t \in {u \in ProjectTasks(db) : u.task_number = source.id}}
      [] OTHER -> {}

\* The catch block of the capture: ROLLBACK, the client released, the error
\* rethrown; the rows of the transaction are gone.
CaptureRollback ==
    /\ cap' = [cap EXCEPT !.pc = "idle", !.result = "error", !.links = {}]
    /\ pool' = pool - 1

\* BEGIN, getEmbedding(summary) and the INSERT of the note; the sequence value
\* a failed INSERT drew is not given back.
CaptureNote ==
    /\ cap.pc = "note"
    /\ \/ /\ Fails
          /\ CaptureRollback
          /\ kb' \in {kb, [kb EXCEPT !.noteSeq = @ + 1]}
       \/ /\ Works
          /\ cap' = [cap EXCEPT !.pc = "link", !.noteId = kb.noteSeq,
                                !.todo = UniqueSources(AllSources(cap.messages))]
          /\ kb' = [kb EXCEPT !.noteSeq = @ + 1]
          /\ pool' = pool
    /\ UNCHANGED <<req, doc, sideVars, askFrame, committed, view, seq, edits, requests, missing,
                   ask>>

\* One turn of the loop over uniqueSources: the lookup, and the INSERT of a
\* link row when it returned a row.
CaptureLink ==
    /\ cap.pc = "link"
    /\ cap.todo # <<>>
    /\ \/ /\ Fails
          /\ CaptureRollback
          /\ kb' = kb
       \/ /\ Works
          /\ LET source == Head(cap.todo)
                 rows == Lookup(source, committed)
             IN  IF rows = {}
                 THEN /\ cap' = [cap EXCEPT
                            !.todo = Tail(@),
                            !.looked = Append(@, [source |-> source, hit |-> FALSE])]
                      /\ kb' = kb
                 ELSE /\ cap' = [cap EXCEPT
                            !.todo = Tail(@),
                            !.looked = Append(@, [source |-> source, hit |-> TRUE]),
                            !.links = @ \cup
                                {[id |-> kb.linkSeq, knowledge_note_id |-> cap.noteId,
                                  kind |-> r.kind, target |-> r.target] :
                                     r \in {CHOOSE x \in rows : TRUE}}]
                      /\ kb' = [kb EXCEPT !.linkSeq = @ + 1]
          /\ pool' = pool
    /\ UNCHANGED <<req, doc, sideVars, askFrame, committed, view, seq, edits, requests, missing,
                   ask>>

\* COMMIT: the note and its link rows become visible together.
CaptureCommit ==
    /\ cap.pc = "link"
    /\ cap.todo = <<>>
    /\ \/ /\ Fails
          /\ CaptureRollback
          /\ kb' = kb
       \/ /\ Works
          /\ kb' = [kb EXCEPT
                !.knowledge_notes = @ \cup
                    {[id |-> cap.noteId, project_id |-> ProjectId,
                      conversation_id |-> ConversationId,
                      note_summary |-> cap.summary]},
                !.knowledge_note_links = @ \cup cap.links]
          /\ cap' = [cap EXCEPT !.pc = "idle", !.result = "note", !.links = {}]
          /\ pool' = pool - 1
    /\ UNCHANGED <<req, doc, sideVars, askFrame, committed, view, seq, edits, requests, missing,
                   ask>>

\* ---- the two specifications
\* One question or one bundle request against a store that ingestion changes
\* meanwhile; the conversation is new or has an exchange already, and one
\* table at most is missing.
WithoutTable(db, t) == IF t \in DOMAIN db THEN [db EXCEPT ![t] = {}] ELSE db

AskScenarios ==
    {[store |-> AskStore, kb |-> AskKb, missing |-> {}, exchange |-> x] :
        x \in BOOLEAN}
    \cup {[store |-> EmptyDb, kb |-> EmptyKb, missing |-> {}, exchange |-> x] :
             x \in BOOLEAN}
    \cup {[store |-> WithoutTable(AskStore, t), kb |-> WithoutTable(AskKb, t),
           missing |-> {t}, exchange |-> FALSE] : t \in Tables}

IdleIngestion ==
    /\ disk = [p \in Paths |-> NoFile]
    /\ gitignore = {}
    /\ gitlog = <<>>
    /\ tx = "none"
    /\ conn = "closed"
    /\ pc = "idle"
    /\ todo = <<>>
    /\ loc = NoLoc
    /\ logs = {}
    /\ processedCount = 0
    /\ threw = "none"
    /\ faults = 0
    /\ edits = 0
    /\ runs = 0
    /\ unit = NoUnit
    /\ run = NoRun
    /\ prev = [clean |-> FALSE, changed |-> FALSE]
    /\ inserted = <<>>
    /\ projects = {ProjectId}
    /\ queue = <<>>
    /\ active = NoJob
    /\ background = {}
    /\ requests = 0

AskInit ==
    /\ IdleIngestion
    /\ \E s \in AskScenarios :
          /\ committed = s.store
          /\ view = s.store
          /\ seq = [file |-> Len(AskPaths) + 2, commit |-> Len(AskHashes) + 1,
                    task |-> 3]
          /\ kb = [s.kb EXCEPT !.messages =
                      IF s.exchange THEN <<UserMessage, AssistantMessage(<<>>)>>
                      ELSE <<>>]
          /\ missing = s.missing
    /\ ask = NoAsk
    /\ cap = NoCap
    /\ pool = 0
    /\ req = NoReq
    /\ doc = NoDoc
    /\ SideNone

NextAsk ==
    \/ requests = 0 /\ createConversation
    \/ requests = 0 /\ addMessageToConversation
    \/ \E n \in 1..2 : requests = 0 /\ getContextBundleForTask(n)
    \/ AskMessages
    \/ AskConnect
    \/ AskNotes
    \/ AskTasks
    \/ AskCommits
    \/ AskDocuments
    \/ AskFiles
    \/ AskChunks
    \/ AskCheck
    \/ AskComplete
    \/ AskSources
    \/ AskToken
    \/ AskSave
    \/ AskEnd
    \/ AskCatch
    \/ BundleFiles
    \/ BundleChunks
    \/ \E p \in {AskPaths[1], AskPaths[2]} : ReindexFile(p, <<"fn", "txt", "fn">>)
    \/ \E p \in {AskPaths[1], AskPaths[2]} : PruneFile(p)

SpecAsk == AskInit /\ [][NextAsk]_vars

\* Conversations over a small or an empty store: messages, disconnects and
\* captures.
ChatInit ==
    /\ IdleIngestion
    /\ \E store \in {EmptyDb, SmallStore} :
          /\ committed = store
          /\ view = store
    /\ seq = [file |-> 2, commit |-> 2, task |-> 2]
    /\ kb = EmptyKb
    /\ missing = {}
    /\ ask = NoAsk
    /\ cap = NoCap
    /\ pool = 0
    /\ req = NoReq
    /\ doc = NoDoc
    /\ SideNone

NextChat ==
    \/ createConversation
    \/ addMessageToConversation
    \/ AskClientClose
    \/ AskMessages
    \/ AskConnect
    \/ AskNotes
    \/ AskTasks
    \/ AskCommits
    \/ AskDocuments
    \/ AskFiles
    \/ AskChunks
    \/ AskCheck
    \/ AskComplete
    \/ AskSources
    \/ AskToken
    \/ AskSave
    \/ AskEnd
    \/ AskCatch
    \/ captureKnowledge
    \/ CaptureSummarize
    \/ CaptureNote
    \/ CaptureLink
    \/ CaptureCommit

SpecChat == ChatInit /\ [][NextChat]_vars

\* Captures of a conversation whose answers cited a task, a commit and files,
\* some of them twice, while ingestion and task requests change the store.
CaptureConversation(i) ==
    LET task == [type |-> "task", id |-> 1]
        commit == [type |-> "commit", id |-> Substring(AskHashes[3], 0, 7)]
        code(path) == [type |-> "code", id |-> path]
    IN  CASE i = 1 ->
               <<UserMessage, AssistantMessage(<<task, commit, code(AskPaths[1])>>)>>
          [] i = 2 ->
               <<UserMessage, AssistantMessage(<<task, code(AskPaths[1])>>),
                 UserMessage,
                 AssistantMessage(<<code(AskPaths[1]), code(AskPaths[2]), task>>)>>
          [] OTHER -> <<UserMessage, AssistantMessage(<<>>)>>

CaptureInit ==
    /\ IdleIngestion
    /\ committed = SmallStore
    /\ view = SmallStore
    /\ seq = [file |-> 2, commit |-> 2, task |-> 2]
    /\ \E i \in 1..3 : kb = [EmptyKb EXCEPT !.messages = CaptureConversation(i)]
    /\ missing = {}
    /\ ask = NoAsk
    /\ cap = NoCap
    /\ pool = 0
    /\ req = NoReq
    /\ doc = NoDoc
    /\ SideNone

NextCapture ==
    \/ captureKnowledge
    \/ CaptureSummarize
    \/ CaptureNote
    \/ CaptureLink
    \/ CaptureCommit
    \/ \E p \in {AskPaths[1], AskPaths[2]} : PruneFile(p)
    \/ \E p \in {AskPaths[1], AskPaths[2]} : ReindexFile(p, <<"txt">>)
    \/ deleteTask(ProjectId, 1)

SpecCapture == CaptureInit /\ [][NextCapture]_vars

\* ------------------------------------- a database shared by two projects
\* The messages of the newest commit of the log: closing references to
\* several tasks, to tasks of the project in both orders and to a task of
\* the other project.
RefMessages ==
    {<<"Fixes", "#1", "closes", "#2">>,
     <<"closes", "#2", "and", "fixes", "#1">>,
     <<"Resolves", "#9", "fixes", "#1">>}

RefCommit(message) ==
    [hash |-> "refs", message |-> message,
     changes |-> << <<"M", "a.ts">>, <<"M", "b.ts">> >>, patch |-> 120]

\* The store after earlier runs of two projects with the same paths and the
\* same commit hashes: the project has a.ts and b.ts indexed and commit fix
\* recorded with its links, the other project has a.ts and b.ts indexed and
\* the commits feat and refs recorded; the project owns tasks 1 and 2, the
\* other project task 9.
SharedStore(first, second) ==
    LET file(id, project, path) ==
            [id |-> id, project_id |-> project, path |-> path,
             content_hash |-> Sha256(<<"txt">>), summary |-> "summary"]
        task(n, project, status) ==
            [task_number |-> n, project_id |-> project, status |-> status,
             origin |-> "user", updated_at |-> "created"]
    IN  [indexed_files |->
            {file(1, ProjectId, "a.ts"), file(2, ProjectId, "b.ts"),
             file(3, ProjectId + 1, "a.ts"), file(4, ProjectId + 1, "b.ts")},
         code_chunks |->
            UNION {ChunkRowsOf(i, chunkCodeWithAST(<<"txt">>)) : i \in 1..4},
         commits |->
            {[id |-> 1, project_id |-> ProjectId, commit_hash |-> "fix",
              message |-> <<"Fixes", "#1">>],
             [id |-> 2, project_id |-> ProjectId + 1, commit_hash |-> "feat",
              message |-> <<"add", "parser">>],
             [id |-> 3, project_id |-> ProjectId + 1, commit_hash |-> "refs",
              message |-> <<"Fixes", "#1", "closes", "#2">>]},
         commit_files |->
            {[commit_id |-> 1, file_id |-> 1, change_type |-> "M"],
             [commit_id |-> 1, file_id |-> 2, change_type |-> "M"],
             [commit_id |-> 2, file_id |-> 3, change_type |-> "A"],
             [commit_id |-> 3, file_id |-> 4, change_type |-> "M"]},
         tasks |->
            {task(1, ProjectId, first), task(2, ProjectId, second),
             task(9, ProjectId + 1, "open")}]

\* A knowledge note of the project that cites a.ts and b.ts.
SharedKb ==
    [EmptyKb EXCEPT
        !.knowledge_notes =
            {[id |-> 1, project_id |-> ProjectId, conversation_id |-> ConversationId,
              note_summary |-> "decision"]},
        !.knowledge_note_links =
            {[id |-> 1, knowledge_note_id |-> 1, kind |-> "file", target |-> 1],
             [id |-> 2, knowledge_note_id |-> 1, kind |-> "file", target |-> 2]},
        !.noteSeq = 2,
        !.linkSeq = 3]

\* Runs of the project's ingestion over that store: a.ts is on disk, edited
\* or not, b.ts is on disk or deleted, and the log holds fix, feat and a
\* commit with several closing references.
SharedInit ==
    /\ \E a \in {<<"txt">>, <<"fn", "txt", "fn">>}, b \in {<<"txt">>, NoFile} :
          disk = [p \in Paths |-> IF p = "a.ts" THEN a ELSE b]
    /\ gitignore = {}
    /\ \E message \in RefMessages :
          gitlog = <<RefCommit(message),
                     CHOOSE c \in CommitUniverse : c.hash = "feat",
                     CHOOSE c \in CommitUniverse : c.hash = "fix">>
    /\ \E first \in {"open", "done"}, second \in {"open", "in_progress"} :
          /\ committed = SharedStore(first, second)
          /\ view = SharedStore(first, second)
    /\ seq = [file |-> 5, commit |-> 4, task |-> 10]
    /\ tx = "none"
    /\ conn = "closed"
    /\ pc = "idle"
    /\ todo = <<>>
    /\ loc = NoLoc
    /\ logs = {}
    /\ processedCount = 0
    /\ threw = "none"
    /\ faults = 0
    /\ edits = 0
    /\ runs = 0
    /\ unit = NoUnit
    /\ run = NoRun
    /\ prev = [clean |-> FALSE, changed |-> FALSE]
    /\ inserted = <<>>
    /\ projects = {ProjectId, ProjectId + 1}
    /\ queue = <<>>
    /\ active = NoJob
    /\ background = {}
    /\ requests = 0
    /\ kb = SharedKb
    /\ missing = {}
    /\ ask = NoAsk
    /\ cap = NoCap
    /\ pool = 0
    /\ req = NoReq
    /\ doc = NoDoc
    /\ SideNone

NextShared ==
    \/ StartRun
    \/ RunStep

SpecShared == SharedInit /\ [][NextShared]_vars

\* ------------------------------------------------- addProjectDocument
\* The documents on record when an upload arrives: design.md of the project
\* with one chunk, and notes.md of another project.
UploadStore ==
    [project_documents |->
        {[id |-> 1, project_id |-> ProjectId, file_name |-> "design.md"],
         [id |-> 2, project_id |-> ProjectId + 1, file_name |-> "notes.md"]},
     document_chunks |-> {[id |-> 1, document_id |-> 1, content |-> <<"W">>]},
     docSeq |-> 3, chunkSeq |-> 2]

\* The texts extractTextFromFile can return, as remark parses them: an empty
\* text, a heading with a long paragraph, two sections the second of which
\* is a heading of two characters, and two sections with a code block.
UploadTexts ==
    LET heading(d, t) == [type |-> "heading", depth |-> d, text |-> t]
        paragraph == [type |-> "paragraph", depth |-> 0, text |-> <<"W">>]
        code == [type |-> "code", depth |-> 0, text |-> <<"W", "ws", "W">>]
    IN  {<<>>,
         <<heading(1, <<"w">>), paragraph>>,
         <<heading(1, <<"w">>), paragraph, heading(1, <<"x">>)>>,
         <<heading(1, <<"w">>), paragraph, heading(2, <<"w">>), code>>}

DocTables(d) ==
    [project_documents |-> d.project_documents, document_chunks |-> d.document_chunks]

\* !chunk || chunk.trim().length < 5
TooSmall(chunk) == StringLength(Trim(chunk)) < 5

\* pool.connect() and BEGIN.
addProjectDocument(project, file_name, build, nodes) ==
    /\ upload.pc = "idle"
    /\ requests < MaxRequests
    /\ requests' = requests + 1
    /\ pool' = pool + 1
    /\ upload' = [NoUpload EXCEPT !.pc = "extract", !.project = project,
                                  !.file_name = file_name, !.build = build,
                                  !.nodes = nodes, !.view = DocTables(docdb),
                                  !.pre = DocTables(docdb)]
    /\ UNCHANGED <<ingestVars, projects, queue, active, background, kb, missing,
                   ask, cap, req, doc, docdb, captures, chat, twin>>

\* Variant: the catch block rethrows without a ROLLBACK and the client goes
\* back to the pool with its transaction, which the next COMMIT on that
\* client makes durable.
UploadCatch_NoRollback(step) ==
    /\ upload' = [upload EXCEPT !.pc = "idle", !.result = "thrown", !.failed = step]
    /\ docdb' = [docdb EXCEPT !.project_documents = upload.view.project_documents,
                              !.document_chunks = upload.view.document_chunks]
    /\ pool' = pool - 1

\* The catch block and the finally block: ROLLBACK, rethrow, release.
UploadCatch(step) ==
    /\ upload' = [upload EXCEPT !.pc = "idle", !.result = "thrown", !.failed = step]
    /\ docdb' = docdb
    /\ pool' = pool - 1

\* extractTextFromFile
UploadExtract ==
    /\ upload.pc = "extract"
    /\ \/ Fails /\ UploadCatch("extract")
       \/ /\ Works
          /\ upload' = [upload EXCEPT !.pc = "insert_doc"]
          /\ UNCHANGED <<docdb, pool>>
    /\ UNCHANGED <<disk, gitignore, gitlog, committed, view, seq, tx, conn, pc,
                   todo, loc, logs, processedCount, threw, edits, runs, unit,
                   run, prev, inserted, queueVars, kb, missing, ask, cap, req, doc,
                   captures, chat, twin>>

\* INSERT INTO project_documents ... RETURNING id under UNIQUE (project_id,
\* file_name), then chunkText(content).  The sequence value of a failed
\* INSERT is not given back.
UploadInsert ==
    /\ upload.pc = "insert_doc"
    /\ IF \E d \in upload.view.project_documents :
             d.project_id = upload.project /\ d.file_name = upload.file_name
       THEN /\ Works
            /\ upload' = [upload EXCEPT !.pc = "idle", !.result = "thrown",
                                        !.failed = "duplicate"]
            /\ docdb' = [docdb EXCEPT !.docSeq = @ + 1]
            /\ pool' = pool - 1
       ELSE \/ /\ Fails
               /\ upload' = [upload EXCEPT !.pc = "idle", !.result = "thrown",
                                           !.failed = "insert_doc"]
               /\ docdb' \in {docdb, [docdb EXCEPT !.docSeq = @ + 1]}
               /\ pool' = pool - 1
            \/ /\ Works
               /\ upload' = [upload EXCEPT
                     !.pc = "chunk",
                     !.documentId = docdb.docSeq,
                     !.view.project_documents = @ \cup
                         {[id |-> docdb.docSeq, project_id |-> upload.project,
                           file_name |-> upload.file_name]},
                     !.todo = chunkText(upload.build, upload.nodes)]
               /\ docdb' = [docdb EXCEPT !.docSeq = @ + 1]
               /\ pool' = pool
    /\ UNCHANGED <<disk, gitignore, gitlog, committed, view, seq, tx, conn, pc,
                   todo, loc, logs, processedCount, threw, edits, runs, unit,
                   run, prev, inserted, queueVars, kb, missing, ask, cap, req, doc,
                   captures, chat, twin>>

\* One turn of the loop over the chunks: the size test, getEmbedding and the
\* INSERT INTO document_chunks; the inner catch block rethrows.
UploadChunk ==
    /\ upload.pc = "chunk"
    /\ upload.todo # <<>>
    /\ LET chunk == Head(upload.todo)
       IN  IF TooSmall(chunk)
           THEN /\ Works
                /\ upload' = [upload EXCEPT !.todo = Tail(@)]
                /\ UNCHANGED <<docdb, pool>>
           ELSE \/ /\ Fails
                   /\ \E step \in {"embed", "insert_chunk"} : UploadCatch(step)
                \/ /\ Works
                   /\ upload' = [upload EXCEPT
                         !.todo = Tail(@),
                         !.embedded = Append(@, chunk),
                         !.view.document_chunks = @ \cup
                             {[id |-> docdb.chunkSeq, document_id |-> upload.documentId,
                               content |-> chunk]}]
                   /\ docdb' = [docdb EXCEPT !.chunkSeq = @ + 1]
                   /\ pool' = pool
    /\ UNCHANGED <<disk, gitignore, gitlog, committed, view, seq, tx, conn, pc,
                   todo, loc, logs, processedCount, threw, edits, runs, unit,
                   run, prev, inserted, queueVars, kb, missing, ask, cap, req, doc,
                   captures, chat, twin>>

\* COMMIT, return and release.
UploadCommit ==
    /\ upload.pc = "chunk"
    /\ upload.todo = <<>>
    /\ docdb' = [docdb EXCEPT !.project_documents = upload.view.project_documents,
                              !.document_chunks = upload.view.document_chunks]
    /\ upload' = [upload EXCEPT !.pc = "idle", !.result = "returned"]
    /\ pool' = pool - 1
    /\ UNCHANGED <<ingestVars, queueVars, kb, missing, ask, cap, req, doc,
                   captures, chat, twin>>

\* Uploads to the project, one after the other, of a new file name, of the
\* name the project has already and of the name another project has.
UploadInit ==
    /\ IdleIngestion
    /\ committed = EmptyDb
    /\ view = EmptyDb
    /\ seq = [file |-> 1, commit |-> 1, task |-> 1]
    /\ kb = EmptyKb
    /\ missing = {}
    /\ ask = NoAsk
    /\ cap = NoCap
    /\ pool = 0
    /\ req = NoReq
    /\ doc = NoDoc
    /\ docdb = UploadStore
    /\ upload = NoUpload
    /\ captures = NoCaptures
    /\ chat = NoChat
    /\ twin = NoTwin

NextUpload ==
    \/ \E file_name \in {"design.md", "notes.md", "api.md"}, build \in Builds,
          nodes \in UploadTexts :
          addProjectDocument(ProjectId, file_name, build, nodes)
    \/ UploadExtract
    \/ UploadInsert
    \/ UploadChunk
    \/ UploadCommit

SpecUpload == UploadInit /\ [][NextUpload]_vars

\* ------------------------------------- captures that share the pool
\* The conversations on record: conversation 1 of the project and
\* conversation 2 of another project, each with one exchange.
ConversationProject(conversation) ==
    IF conversation = ConversationId THEN ProjectId ELSE ProjectId + 1

ConversationMessages(conversation) == <<UserMessage, AssistantMessage(<<>>)>>

poolFrame ==
    <<ingestVars, queueVars, missing, ask, cap, req, doc, uploadVars, chat, twin>>

\* captureKnowledgeFromConversation, first statement: pool.connect() resolves
\* when the pool has a client to hand out.
captureKnowledgeFromConversation(i, project, conversation) ==
    /\ captures[i].pc = "idle"
    /\ pool < PoolSize
    /\ pool' = pool + 1
    /\ captures' = [captures EXCEPT ![i] =
                       [IdleCapture EXCEPT !.pc = "client", !.project = project,
                                           !.conversation = conversation]]
    /\ UNCHANGED <<poolFrame, kb>>

\* getConversationMessages, called while the capture holds its client:
\* pool.connect() for a second client.
getConversationMessages(i) ==
    /\ captures[i].pc = "client"
    /\ pool < PoolSize
    /\ pool' = pool + 1
    /\ captures' = [captures EXCEPT ![i].pc = "reading"]
    /\ UNCHANGED <<poolFrame, kb>>

\* The SELECT of the messages by conversation_id and the release of the
\* second client.
CaptureRead(i) ==
    /\ captures[i].pc = "reading"
    /\ pool' = pool - 1
    /\ captures' = [captures EXCEPT
          ![i].pc = "summarize",
          ![i].messages = ConversationMessages(captures[i].conversation)]
    /\ UNCHANGED <<poolFrame, kb>>

\* The rest of the call: the length test, the completion, and for a summary
\* the transaction that inserts the note with the project id and the
\* conversation id of the request; the finally block releases the client.
CaptureWrite(i) ==
    /\ captures[i].pc = "summarize"
    /\ pool' = pool - 1
    /\ \/ /\ Fails
          /\ captures' = [captures EXCEPT ![i].pc = "done", ![i].result = "error"]
          /\ kb' \in {kb, [kb EXCEPT !.noteSeq = @ + 1]}
       \/ /\ Works
          /\ \E summary \in SummaryResponses :
                IF TooShort(captures[i].messages) \/ NoKnowledge(summary)
                THEN /\ captures' = [captures EXCEPT ![i].pc = "done", ![i].result = "null"]
                     /\ kb' = kb
                ELSE /\ captures' = [captures EXCEPT ![i].pc = "done", ![i].result = "note"]
                     /\ kb' = [kb EXCEPT
                           !.knowledge_notes = @ \cup
                               {[id |-> kb.noteSeq, project_id |-> captures[i].project,
                                 conversation_id |-> captures[i].conversation,
                                 note_summary |-> summary]},
                           !.noteSeq = @ + 1]
    /\ UNCHANGED poolFrame

\* As many capture requests as the pool has clients, for either project and
\* either conversation, arriving in any order.
PoolInit ==
    /\ IdleIngestion
    /\ committed = EmptyDb
    /\ view = EmptyDb
    /\ seq = [file |-> 1, commit |-> 1, task |-> 1]
    /\ AskNone

NextPool ==
    \E i \in 1..PoolSize :
        \/ \E project \in {ProjectId, ProjectId + 1},
              conversation \in {ConversationId, ConversationId + 1} :
              captureKnowledgeFromConversation(i, project, conversation)
        \/ getConversationMessages(i)
        \/ CaptureRead(i)
        \/ CaptureWrite(i)

SpecPool == PoolInit /\ [][NextPool]_vars

\* ------------------------------- message requests on one conversation
\* The requests that post a message to the conversation.
ChatRequests == {1, 2, 3}

\* A message row: its role, the request that stored it (0 for the rows that
\* were there before) and, for a reply, the request whose message was the
\* question it answers.
ChatMessage(role, by, about) == [role |-> role, by |-> by, about |-> about]

NoQuestion == ChatMessage("none", 0, 0)

IdleRequest == [pc |-> "idle", question |-> NoQuestion, history |-> <<>>, result |-> "none"]

chatFrame ==
    <<disk, gitignore, gitlog, committed, view, seq, tx, conn, pc, todo, loc,
      logs, processedCount, threw, edits, runs, unit, run, prev, inserted,
      queueVars, kb, missing, ask, cap, pool, req, doc, uploadVars, captures, twin>>

\* addMessageToConversation up to the call of streamResponse: addUserMessage
\* inserts the message of the request; its exception goes to next(error).
addUserMessage(r) ==
    /\ chat.requests[r].pc = "idle"
    /\ \/ /\ Fails
          /\ chat' = [chat EXCEPT !.requests[r].pc = "done",
                                  !.requests[r].result = "error"]
       \/ /\ Works
          /\ chat' = [chat EXCEPT
                !.messages = Append(@, ChatMessage("user", r, 0)),
                !.requests[r].pc = "stream"]
    /\ UNCHANGED chatFrame

\* streamResponse up to getAnswerStream: getConversationMessages, the last
\* row as the question and the rows before it as the history.
streamResponse(r) ==
    /\ chat.requests[r].pc = "stream"
    /\ \/ /\ Fails
          /\ chat' = [chat EXCEPT !.requests[r].pc = "done",
                                  !.requests[r].result = "error"]
       \/ /\ Works
          /\ LET messages == chat.messages
             IN  chat' = [chat EXCEPT
                    !.requests[r].pc = "answer",
                    !.requests[r].question = messages[Len(messages)],
                    !.requests[r].history = SubSeq(messages, 1, Len(messages) - 1)]
    /\ UNCHANGED chatFrame

\* The stream of the answer to the question, then addAssistantMessage with
\* the full response.
addAssistantMessage(r) ==
    /\ chat.requests[r].pc = "answer"
    /\ \/ /\ Fails
          /\ chat' = [chat EXCEPT !.requests[r].pc = "done",
                                  !.requests[r].result = "error"]
       \/ /\ Works
          /\ chat' = [chat EXCEPT
                !.messages = Append(@, ChatMessage("assistant", r,
                                                   chat.requests[r].question.by)),
                !.requests[r].pc = "done",
                !.requests[r].result = "end"]
    /\ UNCHANGED chatFrame

\* A conversation with one exchange, and three message requests that arrive
\* in any order.
ThreadInit ==
    /\ IdleIngestion
    /\ committed = EmptyDb
    /\ view = EmptyDb
    /\ seq = [file |-> 1, commit |-> 1, task |-> 1]
    /\ kb = EmptyKb
    /\ missing = {}
    /\ ask = NoAsk
    /\ cap = NoCap
    /\ pool = 0
    /\ req = NoReq
    /\ doc = NoDoc
    /\ docdb = EmptyDocs
    /\ upload = NoUpload
    /\ captures = NoCaptures
    /\ twin = NoTwin
    /\ chat = [messages |-> <<ChatMessage("user", 0, 0), ChatMessage("assistant", 0, 0)>>,
               requests |-> [r \in ChatRequests |-> IdleRequest]]

NextThread ==
    \E r \in ChatRequests :
        \/ addUserMessage(r)
        \/ streamResponse(r)
        \/ addAssistantMessage(r)

SpecThread == ThreadInit /\ [][NextThread]_vars

\* ------------------------------- two runs of one project's ingestion
\* startProjectIngestionInBackground starts a run outside the queue, so the
\* run of a queued job can interleave with it statement by statement.  Both
\* read the same working tree and the same log and write the same database
\* under READ COMMITTED: a statement sees the committed rows, waits for the
\* transaction that holds a lock it needs, and a unique or foreign key
\* violation is an exception that the catch block of the loop answers with
\* ROLLBACK.
TwinLog ==
    <<CHOOSE c \in CommitUniverse : c.hash = "fix",
      CHOOSE c \in CommitUniverse : c.hash = "feat">>

Other(r) == 3 - r

twinFrame ==
    <<disk, gitignore, gitlog, committed, view, seq, tx, conn, pc, todo, loc,
      logs, processedCount, threw, edits, runs, unit, run, prev, inserted,
      queueVars, kb, missing, ask, cap, pool, req, doc, uploadVars, captures, chat>>

RowsOfPath(path) == {f \in twin.db.files : f.path = path}

\* The catch block of either loop: ROLLBACK, log, next file or next commit.
TwinCatch(r, error) ==
    LET me == twin.runs[r]
    IN  twin' = [twin EXCEPT
           !.runs[r] = [me EXCEPT
               !.pc = IF me.pc \in {"file_delete", "file_wait", "file_insert", "file_commit"}
                      THEN "file_loop" ELSE "git_loop",
               !.files = IF me.pc \in {"file_delete", "file_wait", "file_insert", "file_commit"}
                         THEN Tail(@) ELSE @,
               !.commits = IF me.pc \in {"file_delete", "file_wait", "file_insert", "file_commit"}
                           THEN @ ELSE Tail(@),
               !.tx = NoTx, !.targets = {}, !.lines = <<>>, !.fileId = 0,
               !.errors = @ \cup {error}]]

\* An exception outside the try blocks of the loops leaves runIngestion
\* through its finally block, which closes the connection.
TwinThrow(r) ==
    /\ Fails
    /\ twin' = [twin EXCEPT !.runs[r].pc = "done", !.runs[r].files = <<>>,
                            !.runs[r].commits = <<>>,
                            !.runs[r].errors = @ \cup {"thrown"}]

\* runIngestion up to the file loop: the prune finds every stored path on
\* disk, and both files of the working tree are to be indexed.
TwinStart(r) ==
    /\ twin.runs[r].pc = "idle"
    /\ \/ TwinThrow(r)
       \/ /\ Works
          /\ twin' = [twin EXCEPT !.runs[r].pc = "file_loop",
                                  !.runs[r].files = PathOrder]
    /\ UNCHANGED twinFrame

\* The SELECT of the stored hash: continue when it is the hash of the file,
\* BEGIN otherwise.
TwinSelect(r) ==
    /\ twin.runs[r].pc = "file_loop"
    /\ twin.runs[r].files # <<>>
    /\ \/ TwinThrow(r)
       \/ /\ Works
          /\ LET path == Head(twin.runs[r].files)
             IN  IF \E f \in RowsOfPath(path) : f.hash = "new"
                 THEN twin' = [twin EXCEPT !.runs[r].files = Tail(@)]
                 ELSE twin' = [twin EXCEPT !.runs[r].pc = "file_delete",
                                           !.runs[r].tx = [NoTx EXCEPT !.open = TRUE]]
    /\ UNCHANGED twinFrame

\* A row is locked by the other run when that run has deleted it, or has
\* inserted a link to it, in a transaction that is still open.
LockedByOther(r, ids) ==
    LET his == twin.runs[Other(r)].tx
    IN  \E id \in ids : id \in his.del \/ \E l \in his.links : l.file_id = id

\* DELETE FROM indexed_files WHERE project_id = $1 AND path = $2: the rows
\* the statement sees are deleted at once, or the statement waits for the
\* transaction that holds one of them.
TwinDelete(r) ==
    /\ twin.runs[r].pc = "file_delete"
    /\ \/ Fails /\ TwinCatch(r, "delete")
       \/ /\ Works
          /\ LET ids == {f.id : f \in RowsOfPath(Head(twin.runs[r].files))}
             IN  IF LockedByOther(r, ids)
                 THEN twin' = [twin EXCEPT !.runs[r].pc = "file_wait",
                                           !.runs[r].targets = ids]
                 ELSE twin' = [twin EXCEPT !.runs[r].pc = "file_insert",
                                           !.runs[r].tx.del = ids]
    /\ UNCHANGED twinFrame

\* The waiting DELETE goes on when the rows are free: it deletes those that
\* are still there and does not see the rows committed since it began.
TwinDeleteResume(r) ==
    /\ twin.runs[r].pc = "file_wait"
    /\ ~LockedByOther(r, twin.runs[r].targets)
    /\ Works
    /\ twin' = [twin EXCEPT
          !.runs[r].pc = "file_insert",
          !.runs[r].targets = {},
          !.runs[r].tx.del = twin.runs[r].targets \cap {f.id : f \in twin.db.files}]
    /\ UNCHANGED twinFrame

\* Variant: indexed_files without UNIQUE (project_id, path).
PathTaken_NoConstraint(r, path) == FALSE

\* UNIQUE (project_id, path): a committed row of the path that this
\* transaction has not deleted.
PathTaken(r, path) ==
    \E f \in RowsOfPath(path) : f.id \notin twin.runs[r].tx.del

\* The INSERT waits for the other run's uncommitted row of the same path.
PathPending(r, path) == \E f \in twin.runs[Other(r)].tx.file : f.path = path

\* summarizeFile, getEmbedding and INSERT INTO indexed_files ... RETURNING
\* id, which takes the next value of the sequence.
TwinInsertFile(r) ==
    /\ twin.runs[r].pc = "file_insert"
    /\ LET path == Head(twin.runs[r].files)
       IN  \/ Fails /\ TwinCatch(r, "insert_file")
           \/ /\ Works
              /\ ~PathPending(r, path)
              /\ IF PathTaken(r, path)
                 THEN TwinCatch(r, "unique_file")
                 ELSE twin' = [twin EXCEPT
                         !.runs[r].pc = "file_commit",
                         !.runs[r].tx.file = {[id |-> twin.seq.file, path |-> path,
                                               hash |-> "new"]},
                         !.seq.file = @ + 1]
    /\ UNCHANGED twinFrame

\* The chunk inserts and COMMIT: the deleted rows go with the links that
\* cascade from them, the new row becomes visible.
TwinFileCommit(r) ==
    /\ twin.runs[r].pc = "file_commit"
    /\ \/ Fails /\ TwinCatch(r, "chunks")
       \/ /\ Works
          /\ LET mine == twin.runs[r].tx
             IN  twin' = [twin EXCEPT
                    !.db.files = {f \in @ : f.id \notin mine.del} \cup mine.file,
                    !.db.links = {l \in @ : l.file_id \notin mine.del},
                    !.runs[r].tx = NoTx,
                    !.runs[r].files = Tail(@),
                    !.runs[r].pc = "file_loop"]
    /\ UNCHANGED twinFrame

\* syncGitHistory up to the commit loop: the stored hashes are read once,
\* newCommits is the rest of the log, oldest first.
TwinGitLoad(r) ==
    /\ twin.runs[r].pc = "file_loop"
    /\ twin.runs[r].files = <<>>
    /\ \/ TwinThrow(r)
       \/ /\ Works
          /\ LET new == FilterNew(Reverse(TwinLog), {c.hash : c \in twin.db.commits})
             IN  twin' = [twin EXCEPT !.runs[r].pc = "git_loop",
                                     !.runs[r].commits = new]
    /\ UNCHANGED twinFrame

\* Variant: commits without UNIQUE (project_id, commit_hash).
HashTaken_NoConstraint(hash) == FALSE

\* UNIQUE (project_id, commit_hash)
HashTaken(hash) == \E c \in twin.db.commits : c.hash = hash

\* BEGIN, getEmbedding and INSERT INTO commits ... RETURNING id; the INSERT
\* waits for the other run's uncommitted row of the same hash.
TwinInsertCommit(r) ==
    /\ twin.runs[r].pc = "git_loop"
    /\ twin.runs[r].commits # <<>>
    /\ LET c == Head(twin.runs[r].commits)
       IN  \/ Fails /\ TwinCatch(r, "insert_commit")
           \/ /\ Works
              /\ \A his \in twin.runs[Other(r)].tx.commit : his.hash # c.hash
              /\ IF HashTaken(c.hash)
                 THEN TwinCatch(r, "unique_commit")
                 ELSE twin' = [twin EXCEPT
                         !.runs[r].pc = "git_links",
                         !.runs[r].lines = c.changes,
                         !.runs[r].tx = [NoTx EXCEPT
                             !.open = TRUE,
                             !.commit = {[id |-> twin.seq.commit, hash |-> c.hash]}],
                         !.seq.commit = @ + 1]
    /\ UNCHANGED twinFrame

\* One line of git.show: SELECT id FROM indexed_files WHERE project_id = $1
\* AND path = $2 sees the committed rows.
TwinLinkSelect(r) ==
    /\ twin.runs[r].pc = "git_links"
    /\ twin.runs[r].lines # <<>>
    /\ Works
    /\ LET rows == RowsOfPath(Head(twin.runs[r].lines)[2])
       IN  IF rows = {}
           THEN twin' = [twin EXCEPT !.runs[r].lines = Tail(@)]
           ELSE \E f \in rows :
                   twin' = [twin EXCEPT !.runs[r].fileId = f.id,
                                        !.runs[r].pc = "git_link"]
    /\ UNCHANGED twinFrame

\* INSERT INTO commit_files: the foreign key locks the file row, waits for
\* the transaction that is deleting it, and fails when the row is gone.
TwinLinkInsert(r) ==
    /\ twin.runs[r].pc = "git_link"
    /\ LET me == twin.runs[r]
       IN  \/ Fails /\ TwinCatch(r, "insert_link")
           \/ /\ Works
              /\ me.fileId \notin twin.runs[Other(r)].tx.del
              /\ IF \A f \in twin.db.files : f.id # me.fileId
                 THEN TwinCatch(r, "foreign_key")
                 ELSE twin' = [twin EXCEPT
                         !.runs[r].pc = "git_links",
                         !.runs[r].lines = Tail(@),
                         !.runs[r].fileId = 0,
                         !.runs[r].tx.links =
                             @ \cup {[commit_id |-> (CHOOSE c \in me.tx.commit : TRUE).id,
                                      file_id |-> me.fileId]}]
    /\ UNCHANGED twinFrame

\* The task of the commit: the UPDATE of the referenced task, which waits for
\* the other run's uncommitted UPDATE of the same row and then tests status
\* again, or generateTaskFromCommit, whose INSERT takes the next task_number.
TwinTask(r) ==
    /\ twin.runs[r].pc = "git_links"
    /\ twin.runs[r].lines = <<>>
    /\ LET c == Head(twin.runs[r].commits)
           n == TaskRef(c.message)
       IN  \/ Fails /\ TwinCatch(r, "task")
           \/ /\ Works
              /\ n > 0
              /\ n \notin twin.runs[Other(r)].tx.closed
              /\ twin' = [twin EXCEPT
                    !.runs[r].pc = "git_commit",
                    !.runs[r].tx.closed =
                        {t.task_number : t \in {t \in twin.db.tasks :
                            t.task_number = n /\ t.status # "done"}}]
           \/ /\ Works
              /\ n = 0
              /\ \E generated \in BOOLEAN :
                    IF generated /\ c.patch >= TrivialPatchLength
                    THEN twin' = [twin EXCEPT
                            !.runs[r].pc = "git_commit",
                            !.runs[r].tx.task = {[task_number |-> twin.seq.task,
                                                  status |-> "done", origin |-> c.hash]},
                            !.seq.task = @ + 1]
                    ELSE twin' = [twin EXCEPT !.runs[r].pc = "git_commit"]
    /\ UNCHANGED twinFrame

\* COMMIT of the commit's transaction.
TwinGitCommit(r) ==
    /\ twin.runs[r].pc = "git_commit"
    /\ Works
    /\ LET mine == twin.runs[r].tx
       IN  twin' = [twin EXCEPT
              !.db.commits = @ \cup mine.commit,
              !.db.links = @ \cup mine.links,
              !.db.tasks = {IF t.task_number \in mine.closed
                            THEN [t EXCEPT !.status = "done"] ELSE t : t \in @}
                           \cup mine.task,
              !.runs[r].tx = NoTx,
              !.runs[r].commits = Tail(@),
              !.runs[r].pc = "git_loop"]
    /\ UNCHANGED twinFrame

\* runIngestion returns after the last commit.
TwinDone(r) ==
    /\ twin.runs[r].pc = "git_loop"
    /\ twin.runs[r].commits = <<>>
    /\ Works
    /\ twin' = [twin EXCEPT !.runs[r].pc = "done"]
    /\ UNCHANGED twinFrame

TwinStep(r) ==
    \/ TwinStart(r)
    \/ TwinSelect(r)
    \/ TwinDelete(r)
    \/ TwinDeleteResume(r)
    \/ TwinInsertFile(r)
    \/ TwinFileCommit(r)
    \/ TwinGitLoad(r)
    \/ TwinInsertCommit(r)
    \/ TwinLinkSelect(r)
    \/ TwinLinkInsert(r)
    \/ TwinTask(r)
    \/ TwinGitCommit(r)
    \/ TwinDone(r)

\* The project's rows when the two runs begin: nothing yet, or what an
\* earlier run stored before the working tree moved on.
TwinStores ==
    { NoTwin,
      [NoTwin EXCEPT
          !.db.files = {[id |-> 1, path |-> "a.ts", hash |-> "old"],
                        [id |-> 2, path |-> "b.ts", hash |-> "new"]},
          !.db.commits = {[id |-> 1, hash |-> "feat"]},
          !.db.links = {[commit_id |-> 1, file_id |-> 1]},
          !.db.tasks = {[task_number |-> 1, status |-> "open", origin |-> ""]},
          !.seq = [file |-> 3, commit |-> 2, task |-> 2]],
      [NoTwin EXCEPT
          !.db.files = {[id |-> 1, path |-> "a.ts", hash |-> "old"]},
          !.db.tasks = {[task_number |-> 1, status |-> "open", origin |-> ""]},
          !.seq = [file |-> 2, commit |-> 1, task |-> 2]] }

TwinInit ==
    /\ IdleIngestion
    /\ committed = EmptyDb
    /\ view = EmptyDb
    /\ seq = [file |-> 1, commit |-> 1, task |-> 1]
    /\ kb = EmptyKb
    /\ missing = {}
    /\ ask = NoAsk
    /\ cap = NoCap
    /\ pool = 0
    /\ req = NoReq
    /\ doc = NoDoc
    /\ docdb = EmptyDocs
    /\ upload = NoUpload
    /\ captures = NoCaptures
    /\ chat = NoChat
    /\ twin \in TwinStores

NextTwin == \E r \in {1, 2} : TwinStep(r)

SpecTwin == TwinInit /\ [][NextTwin]_vars

\* Node's event loop runs every continuation that is ready, and Postgres
\* wakes a waiting statement when the lock it waits for is released.
SpecTwinLive == SpecTwin /\ WF_vars(TwinStep(1)) /\ WF_vars(TwinStep(2))

\* ================================================================= claims
\* C1: when a step of a file's transaction fails (delete, summarise, embed,
\* insert, chunk), the file and chunk rows of the store are afterwards what
\* they were when the transaction began and the failure is logged.
C1_FileFailureRollsBack ==
    (pc # "idle" /\ unit.kind = "file" /\ unit.failed # {} /\ unit.outcome # "open") =>
        /\ committed.indexed_files = unit.pre.indexed_files
        /\ committed.code_chunks = unit.pre.code_chunks
        /\ \/ <<"Failed to process", unit.key>> \in logs
           \/ <<"Failed to summarize", unit.key>> \in logs

\* C2: a run whose only failures concern a single file (read, hash lookup,
\* processing) or a single commit still logs the processed count of file
\* sync and runs git sync.
C2_RunFinishesWholeWork ==
    (run.ended /\ threw \notin {"prune", "git_load"}) =>
        /\ \E n \in 0..Len(PathOrder) : <<"File sync complete.", n>> \in logs
        /\ run.gitStarted

\* C3: when a step of a commit's transaction fails (message embedding, commit
\* insert, name-status, link insert, task close, patch, retrospective task
\* insert), the transaction ends with the store as it was when it began and
\* the loop goes on with the next commit.
C3Steps ==
    {"embed_message", "insert_commit", "name_status", "link", "close_task",
     "patch", "insert_task"}

C3_CommitFailureRollsBack ==
    [][(/\ unit.kind = "commit" /\ unit.outcome = "open"
        /\ unit'.kind = "commit" /\ unit'.outcome # "open"
        /\ unit'.failed \cap C3Steps # {})
       => (/\ committed' = unit.pre
           /\ view' = unit.pre
           /\ pc' = "git_loop"
           /\ todo' = Tail(todo)
           /\ threw' = "none")]_vars

\* C3 witness: a commit whose retrospective task insert failed was rolled
\* back while an earlier commit of the run stays recorded.
C3_Witness ==
    /\ unit.kind = "commit"
    /\ unit.outcome = "rolled_back"
    /\ "insert_task" \in unit.failed
    /\ ProjectCommits(unit.pre) # {}
    /\ committed = unit.pre

\* C4: after a file sync without a failed transaction, every stored file of
\* the project that is on disk has the hash of its disk content, and its
\* chunk rows are the chunker's output for that content.
C4_IndexMatchesDisk ==
    (pc = "git_load" /\ run.clean) =>
        \A f \in committed.indexed_files :
            (f.project_id = ProjectId /\ disk[f.path] # NoFile) =>
                /\ f.content_hash = Sha256(disk[f.path])
                /\ {c \in committed.code_chunks : c.file_id = f.id}
                     = ChunkRowsOf(f.id, chunkCodeWithAST(disk[f.path]))

\* C5: a commit hash has at most one commit row and at most one committed
\* transaction, and a git sync that finds every hash of the log recorded
\* begins no transaction and leaves the store as it was.
AllRecorded(db) ==
    \A i \in 1..Len(gitlog) :
        \E c \in ProjectCommits(db) : c.commit_hash = gitlog[i].hash

C5_CommitProcessedOnce ==
    /\ \A c1, c2 \in ProjectCommits(committed) \cup ProjectCommits(view) :
          c1.commit_hash = c2.commit_hash => c1 = c2
    /\ \A i, j \in 1..Len(inserted) : inserted[i] = inserted[j] => i = j
    /\ \A l \in committed.commit_files :
          \E c \in committed.commits : c.id = l.commit_id
    /\ (pc # "idle" /\ run.newCommits >= 0 /\ AllRecorded(run.gitPre)) =>
          /\ ~run.gitBegun
          /\ committed = run.gitPre
          /\ view = run.gitPre

\* C5 witness: a git sync over a non-empty log whose commits were all
\* recorded by an earlier run has finished.
C5_Witness ==
    /\ pc = "finally"
    /\ run.newCommits = 0
    /\ Len(gitlog) >= 1
    /\ AllRecorded(run.gitPre)
    /\ runs >= 2

\* C6: a run that follows a run in which every unit succeeded, with no change
\* of the working tree or the log in between, changes no row and makes no
\* summarisation, embedding or task-generation call.
C6_RerunIsNoOp ==
    (pc # "idle" /\ run.repeat) =>
        /\ committed = run.pre
        /\ view = run.pre
        /\ ~run.calls
        /\ ~run.writes

\* C6 witness: such a second run has reached its end over an index that
\* holds a file and a commit.
C6_Witness ==
    /\ pc = "finally"
    /\ run.repeat
    /\ threw = "none"
    /\ committed.indexed_files # {}
    /\ committed.commits # {}

\* C8: git sync issues no statement before file sync has returned; when file
\* sync throws, git sync does not run and the connection is closed.
GitPositions ==
    {"git_load", "git_loop", "git_embed", "git_insert", "git_show", "git_links",
     "git_patch", "git_generate", "git_task", "git_commit"}

C8_FileSyncBeforeGitSync ==
    /\ (run.gitStarted \/ pc \in GitPositions) => run.fileSyncReturned
    /\ threw \in {"prune", "read", "lookup"} =>
          /\ ~run.gitStarted
          /\ pc \in {"finally", "idle"}
          /\ run.ended => conn = "closed"

\* C8 witness: a run whose file sync threw has ended.
C8_Witness ==
    /\ threw \in {"read", "lookup"}
    /\ run.ended
    /\ conn = "closed"
    /\ ~run.gitStarted
    /\ Len(gitlog) >= 1

\* C9: commit rows are inserted in chronological order: a row with a smaller
\* id is never for a newer commit of the log.
Chrono(hash) ==
    CHOOSE i \in 1..Len(gitlog) : Reverse(gitlog)[i].hash = hash

C9_ChronologicalInsertion ==
    \A c1, c2 \in ProjectCommits(committed) :
        c1.id < c2.id => Chrono(c1.commit_hash) < Chrono(c2.commit_hash)

\* C10: for a commit whose message refers to task N with closes, fixes or
\* resolves in any letter case (N being the reference the scan finds, the
\* first of the message), where task N exists and is not done: no patch is
\* fetched, no task is generated, and once the transaction has committed
\* task N is done and no task row was added.
IsClosingRef(message, i) ==
    /\ i < Len(message)
    /\ Lower(message[i]) \in {"closes", "fixes", "resolves"}
    /\ HashNumber(message[i + 1]) > 0

FirstClosingRef(message, n) ==
    \E i \in 1..Len(message) :
        /\ IsClosingRef(message, i)
        /\ HashNumber(message[i + 1]) = n
        /\ \A j \in 1..(i - 1) : ~IsClosingRef(message, j)

OpenTask(db, n) ==
    \E t \in ProjectTasks(db) : t.task_number = n /\ t.status # "done"

RunningRuns ==
    Cardinality({b \in background : b.phase \in RunningPhases})
      + (IF active.phase \in RunningPhases THEN 1 ELSE 0)

C7_OneIngestionAtATime == RunningRuns <= 1

\* C11: a commit whose trimmed patch is shorter than the threshold, or whose
\* completion is empty or the NULL sentinel, gets no task row: no task row
\* ever stems from a commit with a short patch, and when generateTaskFromCommit
\* has returned on the size test or on the sentinel, the COMMIT that follows
\* makes the commit row and its links durable, without a task for the commit.
CommitPatch(hash) == (CHOOSE c \in CommitUniverse : c.hash = hash).patch

TrivialSkip ==
    /\ pc = "git_commit"
    /\ unit.patched
    /\ \/ loc.commit.patch < TrivialPatchLength
       \/ loc.response \in {"empty", "NULL", "null"}

C11_TrivialCommitMakesNoTask ==
    [][/\ \A t \in committed'.tasks \cup view'.tasks :
             t.origin # "user" => CommitPatch(t.origin) >= 50
       /\ TrivialSkip =>
             /\ pc' = "git_loop"
             /\ ~\E t \in committed'.tasks : t.origin = loc.commit.hash
             /\ \E c \in ProjectCommits(committed') :
                   c.commit_hash = loc.commit.hash /\ c.id = loc.commitId
             /\ \A i \in 1..Len(loc.commit.changes) :
                   \A f \in FileRows(view, ProjectId, loc.commit.changes[i][2]) :
                      [commit_id |-> loc.commitId, file_id |-> f.id,
                       change_type |-> loc.commit.changes[i][1]]
                         \in committed'.commit_files]_vars

\* C11 witness: a commit with a long patch that the model answered with the
\* sentinel has committed, with its row and a link to an indexed file.
C11_Witness ==
    /\ unit.kind = "commit"
    /\ unit.outcome = "committed"
    /\ unit.generated
    /\ <<"AI determined commit is trivial", unit.key>> \in logs
    /\ \E c \in ProjectCommits(committed) :
          /\ c.commit_hash = unit.key
          /\ \E l \in committed.commit_files : l.commit_id = c.id
    /\ ~\E t \in committed.tasks : t.origin = unit.key

\* A commit with a short patch has committed in the same way.
C11_WitnessShortPatch ==
    /\ unit.kind = "commit"
    /\ unit.outcome = "committed"
    /\ unit.patched
    /\ CommitPatch(unit.key) < 50
    /\ \E c \in ProjectCommits(committed) :
          /\ c.commit_hash = unit.key
          /\ \E l \in committed.commit_files : l.commit_id = c.id

\* C12: the prune step deletes exactly the stored paths of the project that
\* the disk listing of the run does not hold: the file row and the chunk rows
\* of a path on disk are left as they were, and a path absent from disk ends
\* with no file row and none of its chunk rows.
OnDisk(p) == disk[p] # NoFile

C12_PruneDeletesExactlyAbsentPaths ==
    [][(pc = "prune" /\ pc' = "file_loop") =>
          /\ view' = committed'
          /\ \A p \in Paths :
                IF OnDisk(p)
                THEN /\ FileRows(committed', ProjectId, p) = FileRows(committed, ProjectId, p)
                     /\ ChunkRows(committed', ProjectId, p) = ChunkRows(committed, ProjectId, p)
                ELSE /\ FileRows(committed', ProjectId, p) = {}
                     /\ ChunkRows(committed, ProjectId, p) \cap committed'.code_chunks = {}
          /\ {f.path : f \in committed'.indexed_files}
                = {f.path : f \in committed.indexed_files} \cap {p \in Paths : OnDisk(p)}]_vars

\* C12 witness: the prune of a run has removed a file that had chunk rows and
\* is no longer on disk.
C12_Witness ==
    /\ pc = "file_loop"
    /\ <<"Pruning complete.">> \in logs
    /\ \E p \in Paths :
          /\ ~OnDisk(p)
          /\ ChunkRows(run.pre, ProjectId, p) # {}
          /\ FileRows(committed, ProjectId, p) = {}
          /\ ChunkRows(run.pre, ProjectId, p) \cap committed.code_chunks = {}

\* C13: after the close handler has ended the response of a stream, nothing
\* more is written to it: no job holds an event written after the end.
C13_NoWriteAfterDisconnect ==
    /\ active.late = {}
    /\ \A i \in 1..Len(queue) : queue[i].late = {}

\* C14: a client disconnect, before the job is dequeued or while it runs,
\* changes neither the queue's jobs nor the run nor the store; the job of a
\* disconnected client is still dequeued and reaches startProjectIngestion
\* (or the catch block when the project lookup throws), a transaction open at
\* that time ends, the run reaches its end with the connection closed, and
\* the job settles so that the queue is free for the next job.
Disconnected(id) ==
    \/ \E i \in 1..Len(queue) : queue[i].id = id /\ queue[i].ended
    \/ Active(id) /\ active.ended

JobIds(q) == {q[i].id : i \in 1..Len(q)}

C14_DisconnectNeverCancels ==
    /\ [][(\E id \in 1..MaxRuns : ~Disconnected(id) /\ Disconnected(id)') =>
             /\ ingestVars' = ingestVars
             /\ JobIds(queue') = JobIds(queue)
             /\ active'.id = active.id
             /\ active'.phase = active.phase]_vars
    /\ (active.ended /\ tx # "none")
          ~> (tx = "none" /\ unit.outcome \in {"committed", "rolled_back"})
    /\ (active.ended /\ pc # "idle")
          ~> (pc = "idle" /\ run.ended /\ conn = "closed")
    /\ \A id \in 1..MaxRuns :
          /\ (Queued(id) /\ Disconnected(id))
                ~> (Active(id) /\ active.phase \in {"clone", "catch"})
          /\ Disconnected(id) ~> Settled(id)

\* C14 witness: the job of a client that went away while a transaction was
\* open has run to its end, with the files and the commits recorded.
C14_Witness ==
    /\ active.phase = "done"
    /\ active.ended
    /\ active.closedAt = "transaction"
    /\ run.ended
    /\ threw = "none"
    /\ committed.indexed_files # {}
    /\ committed.commits # {}

\* A job whose client went away while it waited in the queue has done the
\* same.
C14_WitnessQueued ==
    /\ active.phase = "done"
    /\ active.closedAt = "queued"
    /\ run.ended
    /\ runs = active.run
    /\ committed.commits # {}

\* C15: the chunks of a code search all belong to the files its file-summary
\* search returned, at most 5 files and at most 10 chunks, and every chunk's
\* path resolves to the path of one of those files; this holds also when
\* files are re-indexed or pruned between the two queries.
C15_ChunksComeFromCandidateFiles ==
    /\ Cardinality(ask.files) <= 5
    /\ Cardinality(ask.chunks) <= 10
    /\ \A c \in ask.chunks : \E f \in ask.files : f.id = c.file_id
    /\ ask.code \subseteq {f.path : f \in ask.files}
    /\ \A i \in 1..Len(ask.sources) :
          ask.sources[i].type = "code" =>
             \E f \in ask.files : f.path = ask.sources[i].id

\* C15 witness: a question's code search returned chunks after one of its 5
\* files was re-indexed or pruned between its two queries.
C15_Witness ==
    /\ ask.kind = "answer"
    /\ ask.stale
    /\ Cardinality(ask.files) = 5
    /\ ask.chunks # {}

\* The 5 files of a question had more than 10 chunks and 10 were returned.
C15_WitnessLimit ==
    /\ ask.kind = "answer"
    /\ Cardinality(ChunkCandidates(committed, ask.files)) > 10
    /\ Cardinality(ask.chunks) = 10

\* The same for the context bundle of a task.
C15_WitnessBundle ==
    /\ ask.kind = "bundle"
    /\ ask.returned
    /\ ask.stale
    /\ ask.chunks # {}

\* C16: the sources getAnswerStream returns hold no two entries with the same
\* type and the same id.
C16_SourcesAreDistinct ==
    (ask.kind = "answer" /\ ask.returned) =>
        \A i, j \in 1..Len(ask.sources) :
            (i < j /\ ask.sources[i].type = ask.sources[j].type)
                => ask.sources[i].id # ask.sources[j].id

\* C17: a completion is requested only with a non-empty context or a
\* non-empty history; the no-context error is raised exactly when both are
\* empty, and then no completion was requested, no sources were returned and
\* the client is back in the pool.
C17_NoContextFailsBeforeCompletion ==
    ask.kind = "answer" =>
        /\ ask.completion => (ask.context # {} \/ ask.history > 0)
        /\ ask.pc \in {"complete", "sources", "tokens", "save", "end"}
              => (ask.context # {} \/ ask.history > 0)
        /\ ask.error = "no_context" =>
              /\ ask.context = {}
              /\ ask.history = 0
              /\ ~ask.completion
              /\ ~ask.returned
              /\ ~ask.client
              /\ pool = 0
        /\ (ask.pc = "catch" /\ ask.context = {} /\ ask.history = 0
               /\ faults = 0 /\ missing = {})
              => ask.error = "no_context"

\* C17 witness: a first question about a project with nothing stored has
\* failed with the no-context error.
C17_Witness ==
    /\ ask.kind = "answer"
    /\ ask.pc = "idle"
    /\ ask.error = "no_context"
    /\ "error" \in ask.sent

\* A later question of a conversation got its completion with an empty
\* context.
C17_WitnessHistoryOnly ==
    /\ ask.completion
    /\ ask.context = {}
    /\ ask.history > 0

\* C18: when a table of a retrieval sub-search does not exist and nothing
\* else fails, getAnswerStream does not fail: it warns about the table and
\* returns the results of the other sub-searches.
C18_MissingTableIsSkipped ==
    (ask.kind = "answer" /\ missing # {} /\ faults = 0
        /\ ask.pc \in {"catch", "sources", "tokens", "save", "end"})
        => /\ ask.error = "none"
           /\ ask.returned
           /\ ask.warned = missing

\* C19: the task numbers of the project's rows are pairwise distinct, every
\* number a new row gets is larger than every number drawn before (by a row
\* still stored, a deleted row or a rolled-back transaction), and the
\* sequence never goes back.
TaskNumbersOf(db) == {t.task_number : t \in ProjectTasks(db)}

DistinctNumbers(db) ==
    \A t1, t2 \in ProjectTasks(db) : t1.task_number = t2.task_number => t1 = t2

C19_TaskNumbersIncrease ==
    [][/\ DistinctNumbers(committed')
       /\ DistinctNumbers(view')
       /\ seq'.task >= seq.task
       /\ \A n \in TaskNumbersOf(committed') \cup TaskNumbersOf(view') :
             /\ n < seq'.task
             /\ n \notin TaskNumbersOf(committed) \cup TaskNumbersOf(view)
                   => n >= seq.task]_vars

\* C19 witness: a user task and a retrospective task are stored, the user
\* task created while the commit's transaction was open, and a number drawn
\* earlier is no longer stored.
C19_Witness ==
    /\ \E u, r \in ProjectTasks(committed) :
          /\ u.origin = "user"
          /\ r.origin # "user"
          /\ u.task_number < r.task_number
    /\ Cardinality(ProjectTasks(committed)) < seq.task - 1
    /\ unit.kind = "commit"
    /\ unit.outcome = "committed"
    /\ ProjectTasks(unit.pre) = {}

\* C20: the capture calls the model, and writes a note, only for a
\* conversation that holds a user message and an assistant message.
HasRole(messages, role) == \E i \in 1..Len(messages) : messages[i].role = role

C20_CaptureNeedsAnExchange ==
    (cap.called \/ cap.result = "note") =>
        HasRole(cap.messages, "user") /\ HasRole(cap.messages, "assistant")

\* C21: when a capture commits, the link rows that become visible are those
\* of the new note, exactly one per distinct code or task source of the
\* conversation's assistant messages whose lookup returned a row, each
\* pointing at the row that source names; a source whose lookup returned
\* nothing adds no row and does not fail the capture; the note and its links
\* become visible in one step, a failed capture leaves neither, and no link
\* is ever visible without its note.
SourceIds(sources, type) ==
    {sources[i].id : i \in {j \in 1..Len(sources) : sources[j].type = type}}

Looked(type, hit) ==
    {i \in 1..Len(cap.looked) :
        cap.looked[i].source.type = type /\ cap.looked[i].hit = hit}

NewLinks == kb'.knowledge_note_links \ kb.knowledge_note_links

CaptureCommits == cap.pc = "link" /\ cap'.result = "note"

C21_LinksAreTheResolvedSources ==
    [][/\ \A l \in kb'.knowledge_note_links :
             \E n \in kb'.knowledge_notes : n.id = l.knowledge_note_id
       /\ (cap.pc # "idle" /\ cap'.result = "error") =>
             /\ kb'.knowledge_notes = kb.knowledge_notes
             /\ kb'.knowledge_note_links = kb.knowledge_note_links
             /\ cap'.links = {}
       /\ CaptureCommits =>
             /\ \E n \in kb'.knowledge_notes \ kb.knowledge_notes :
                   n.id = cap.noteId
             /\ \A l \in kb.knowledge_note_links : l.knowledge_note_id # cap.noteId
             /\ \A l \in NewLinks : l.knowledge_note_id = cap.noteId
             /\ \A type \in {"code", "task"} :
                   /\ {cap.looked[i].source.id : i \in Looked(type, TRUE) \cup Looked(type, FALSE)}
                         = SourceIds(AllSources(cap.messages), type)
                   /\ Cardinality(Looked(type, TRUE) \cup Looked(type, FALSE))
                         = Cardinality(SourceIds(AllSources(cap.messages), type))
             /\ Cardinality(NewLinks)
                   = Cardinality(Looked("code", TRUE)) + Cardinality(Looked("task", TRUE))
             /\ \A i \in Looked("code", TRUE) :
                   \E l \in NewLinks, f \in committed'.indexed_files :
                      /\ l.kind = "file"
                      /\ l.target = f.id
                      /\ f.project_id = ProjectId
                      /\ f.path = cap.looked[i].source.id
             /\ \A i \in Looked("task", TRUE) :
                   \E l \in NewLinks, t \in ProjectTasks(committed') :
                      /\ l.kind = "task"
                      /\ l.target = t.task_number
                      /\ t.task_number = cap.looked[i].source.id]_vars

\* C21 witness: a capture has committed a note with a file link; the
\* conversation cited a source twice and a source that no longer resolved.
C21_Witness ==
    /\ cap.result = "note"
    /\ \E l \in kb.knowledge_note_links :
          l.knowledge_note_id = cap.noteId /\ l.kind = "file"
    /\ Looked("task", FALSE) # {}
    /\ Len(AllSources(cap.messages)) > Len(UniqueSources(AllSources(cap.messages)))

\* A capture failed after it had inserted a link row.
C21_WitnessRollback ==
    /\ cap.result = "error"
    /\ Looked("code", TRUE) # {}
    /\ kb.knowledge_notes = {}

\* C29: when a capture commits, every commit source of the conversation's
\* assistant messages that names a stored commit of the project has a link
\* row of the new note carrying that commit's id.
C29_CitedCommitsAreLinked ==
    [][CaptureCommits =>
          \A id \in SourceIds(AllSources(cap.messages), "commit") :
             \A c \in ProjectCommits(committed') :
                Substring(c.commit_hash, 0, 7) = id =>
                   \E l \in NewLinks : l.kind = "commit" /\ l.target = c.id]_vars

\* C22: when the unit of a file or of a commit ends after a completion or
\* embedding call of summarizeFile, of the summary embedding or of
\* generateTaskFromCommit has thrown, the unit is rolled back: the store is
\* what it was when the unit began, so the unit is left for the next run.
ModelCallThrew ==
    unit'.failed \cap {"summarize", "embed_summary", "throws", "embed_task"} # {}

C22_ModelFailureLeavesUnitUnrecorded ==
    [][(unit.outcome = "open" /\ unit'.outcome # "open" /\ ModelCallThrew)
          => (unit'.outcome = "rolled_back" /\ committed' = unit.pre)]_vars

\* C23: when the task-generation response does not parse or lacks a field,
\* the commit's unit commits: the failure is logged, the tasks are those
\* stored when the unit began, and the commit row with the link rows its
\* transaction inserted is stored.
ParseFailed == unit'.failed \cap {"bad_json", "missing_field"} # {}

UnitCloses == unit.outcome = "open" /\ unit'.outcome # "open"

C23_ParseFailureKeepsCommit ==
    [][(unit.kind = "commit" /\ UnitCloses /\ ParseFailed) =>
          /\ unit'.outcome = "committed"
          /\ <<"Failed to generate task", unit.key>> \in logs'
          /\ committed'.tasks = unit.pre.tasks
          /\ \E c \in ProjectCommits(committed') \ ProjectCommits(unit.pre) :
                /\ c.commit_hash = unit.key
                /\ \A l \in view.commit_files \ unit.pre.commit_files :
                      l.commit_id = c.id /\ l \in committed'.commit_files
          /\ committed'.indexed_files = unit.pre.indexed_files]_vars

\* C23 witness: a commit whose response did not parse is stored with a link
\* to an indexed file and without a task.
C23_Witness ==
    /\ unit.kind = "commit"
    /\ unit.outcome = "committed"
    /\ unit.failed \cap {"bad_json", "missing_field"} # {}
    /\ \E c \in ProjectCommits(committed), l \in committed.commit_files :
          c.commit_hash = unit.key /\ l.commit_id = c.id
    /\ ProjectTasks(committed) = ProjectTasks(unit.pre)

\* C24: a BEGIN is issued only when no transaction is open; a transaction
\* that ends, ends once, by the COMMIT or the ROLLBACK of the file or commit
\* it was begun for; while it is open it has changed only rows of that one
\* file or that one commit; and no transaction is open when runIngestion
\* closes the connection or is idle.
Begins ==
    \/ pc = "file_lookup" /\ pc' = "file_delete"
    \/ pc = "git_loop" /\ pc' = "git_embed"

OwnFileIds(u) ==
    {f.id : f \in {g \in committed.indexed_files \cup view.indexed_files :
                      g.path = u.key}}

OwnCommitIds(u) ==
    {c.id : c \in {d \in committed.commits \cup view.commits :
                      d.commit_hash = u.key}}

ConcernsOneUnit(u) ==
    IF u.kind = "file"
    THEN /\ view.commits = committed.commits
         /\ view.tasks = committed.tasks
         /\ {f \in view.indexed_files : f.path # u.key}
               = {f \in committed.indexed_files : f.path # u.key}
         /\ {c \in view.code_chunks : c.file_id \notin OwnFileIds(u)}
               = {c \in committed.code_chunks : c.file_id \notin OwnFileIds(u)}
         /\ {l \in view.commit_files : l.file_id \notin OwnFileIds(u)}
               = {l \in committed.commit_files : l.file_id \notin OwnFileIds(u)}
    ELSE /\ u.kind = "commit"
         /\ view.indexed_files = committed.indexed_files
         /\ view.code_chunks = committed.code_chunks
         /\ {c \in view.commits : c.commit_hash # u.key}
               = {c \in committed.commits : c.commit_hash # u.key}
         /\ {l \in view.commit_files : l.commit_id \notin OwnCommitIds(u)}
               = {l \in committed.commit_files : l.commit_id \notin OwnCommitIds(u)}

C24_TransactionsAreBalanced ==
    [][/\ Begins => /\ tx = "none"
                    /\ tx' = "open"
                    /\ unit'.outcome = "open"
                    /\ unit'.key = (IF pc = "file_lookup" THEN loc.path ELSE Head(todo).hash)
       /\ (tx = "none" /\ tx' # "none") => Begins
       /\ (tx # "none" /\ tx' # "none") => unit'.key = unit.key /\ unit'.outcome = "open"
       /\ (tx # "none" /\ tx' = "none") =>
             /\ unit.outcome = "open"
             /\ unit'.key = unit.key
             /\ unit'.outcome \in {"committed", "rolled_back"}
             /\ unit'.outcome = "rolled_back" => view' = committed' /\ committed' = committed
             /\ unit'.outcome = "committed" => committed' = view /\ view' = view
       /\ tx # "none" => ConcernsOneUnit(unit) /\ conn = "open"
       /\ tx = "none" => view = committed
       /\ (conn = "open" /\ conn' = "closed") => tx = "none"
       /\ pc' = "idle" => tx' = "none"]_vars

\* C24 witness: a run has rolled one unit back, later committed another one,
\* and has closed its connection with no transaction open.
C24_Witness ==
    /\ conn = "closed"
    /\ tx = "none"
    /\ run.ended
    /\ ~run.clean
    /\ unit.outcome = "committed"

\* C24 witness: an exception has left a sync between two transactions and
\* the connection was closed with none open.
C24_WitnessThrow ==
    /\ conn = "closed"
    /\ tx = "none"
    /\ threw # "none"
    /\ unit.outcome \in {"committed", "rolled_back"}

\* C25: when the message of a commit refers to a task number that has no
\* row, or whose row is already done, the UPDATE changes no task row
\* (updated_at included) and raises nothing; no retrospective task is
\* generated for the commit, and unless another statement of the unit has
\* failed the commit is recorded, with the tasks table as it was.
NothingToClose(db, taskNumber) ==
    ~\E t \in ProjectTasks(db) : t.task_number = taskNumber /\ t.status # "done"

C25_StaleReferenceChangesNothing ==
    [][/\ (/\ pc = "git_links"
           /\ pc' = "git_commit"
           /\ TaskRef(loc.commit.message) > 0
           /\ NothingToClose(view, TaskRef(loc.commit.message))) =>
             /\ view'.tasks = view.tasks
             /\ tx' = tx
             /\ unit' = unit
       /\ (/\ tx # "none"
           /\ tx' = "none"
           /\ unit.kind = "commit"
           /\ TaskRef(unit.message) > 0) =>
             /\ ~unit'.patched
             /\ ~unit'.generated
             /\ ~\E t \in committed'.tasks : t.origin = unit.key
             /\ unit'.failed = {} =>
                   /\ unit'.outcome = "committed"
                   /\ \E c \in ProjectCommits(committed') : c.commit_hash = unit.key
                   /\ NothingToClose(committed, TaskRef(unit.message)) =>
                         committed'.tasks = committed.tasks]_vars

\* C25 witness: a commit that refers to task 1 has been recorded while task 1
\* was a retrospective task, done since its own commit and not touched.
C25_Witness ==
    /\ unit.kind = "commit"
    /\ unit.outcome = "committed"
    /\ TaskRef(unit.message) = 1
    /\ \E t \in ProjectTasks(committed) :
          /\ t.task_number = 1
          /\ t.status = "done"
          /\ t.updated_at = "commit_date"

\* C25 witness: a commit that refers to task 1 has been recorded while the
\* project had no task 1.
C25_WitnessMissing ==
    /\ unit.kind = "commit"
    /\ unit.outcome = "committed"
    /\ TaskRef(unit.message) = 1
    /\ ~\E t \in ProjectTasks(committed) : t.task_number = 1
    /\ \E c \in ProjectCommits(committed) : c.commit_hash = unit.key

\* C26: when the transaction of a commit commits, the commit_files rows of
\* that commit are exactly one row for every line of its name-status list
\* whose changed path is an indexed file of the project at that moment, with
\* the line's change type; there is at most one row per (commit, file).
ChangedPath(parts) == parts[Len(parts)]

ExpectedLinks(db, commitId, changes) ==
    {[commit_id |-> commitId, file_id |-> e[2].id, change_type |-> changes[e[1]][1]] :
        e \in {d \in (1..Len(changes)) \X db.indexed_files :
                  /\ d[2].project_id = ProjectId
                  /\ d[2].path = ChangedPath(changes[d[1]])}}

LinksOf(db, commitId) == {l \in db.commit_files : l.commit_id = commitId}

C26_LinksMatchChangedPaths ==
    [][(/\ pc = "git_commit"
        /\ unit.kind = "commit"
        /\ unit'.outcome = "committed") =>
          /\ LinksOf(committed', loc.commitId)
                = ExpectedLinks(committed', loc.commitId, loc.commit.changes)
          /\ \A l, m \in LinksOf(committed', loc.commitId) :
                l.file_id = m.file_id => l = m]_vars

\* C27: every indexed_files row that file sync commits has at least one
\* code_chunks row; when the chunker captures no declaration in non-blank
\* content it returns one chunk that holds the whole content and spans
\* lines 1 to the number of lines of the content, and that chunk is the
\* file's only row when the file commits.
NoCapture(content) == \A i \in 1..Len(content) : content[i] # "fn"

C27_IndexedFilesHaveChunks ==
    [][/\ \A f \in committed'.indexed_files :
             \E c \in committed'.code_chunks : c.file_id = f.id
       /\ (pc = "file_chunk" /\ pc' = "file_chunks" /\ NoCapture(loc.content)) =>
             /\ Len(Trim(loc.content)) > 0
             /\ Len(loc'.chunks) = 1
             /\ loc'.chunks[1].content = loc.content
             /\ loc'.chunks[1].start_line = 1
             /\ loc'.chunks[1].end_line = Len(loc.content)
       /\ (/\ pc = "file_chunks"
           /\ unit'.outcome = "committed"
           /\ NoCapture(loc.content)) =>
             \E f \in FileRows(committed', ProjectId, loc.path) :
                {c \in committed'.code_chunks : c.file_id = f.id}
                   = {[file_id |-> f.id, chunk_name |-> "file_content",
                       chunk_type |-> "block", content |-> loc.content,
                       start_line |-> 1, end_line |-> Len(loc.content)]}]_vars

\* C27 witness: a file of two lines without a declaration is committed with
\* its whole-content chunk spanning lines 1 to 2.
C27_Witness ==
    \E f \in committed.indexed_files, c \in committed.code_chunks :
       /\ c.file_id = f.id
       /\ c.chunk_name = "file_content"
       /\ c.start_line = 1
       /\ c.end_line = 2
       /\ Len(c.content) = 2

\* C28 (as stated): every task row has status open, in_progress or done; a
\* created row is open; an updateTask request whose status is any other
\* value ends in an error and changes no row; the rows a run writes are done.
UpdateStep == requests' = requests + 1

StatusesAreValid(db) == \A t \in db.tasks : t.status \in TaskStatuses

WritesAreValid ==
    /\ StatusesAreValid(committed')
    /\ StatusesAreValid(view')
    /\ edits' # edits =>
          \A t \in committed'.tasks \ committed.tasks : t.status = "open"
    /\ (~UpdateStep /\ edits' = edits) =>
          \A t \in (view'.tasks \ view.tasks) \ committed.tasks : t.status = "done"

C28_OtherStatusIsRejected ==
    [][/\ WritesAreValid
       /\ (UpdateStep /\ req'.status \notin TaskStatuses \cup {"undefined"}) =>
             /\ req'.error # "none"
             /\ committed' = committed
             /\ view' = view]_vars

\* C28 (amended): every task row has status open, in_progress or done; a
\* created row is open; an updateTask request whose status is a non-empty
\* value other than the three ends in the error Invalid task status, or in
\* Task not found, and changes no row; a request whose status is absent or
\* empty leaves the status of every row as it is, while its title is still
\* applied; the rows a run writes are done.
StatusOf(db) == {<<t.task_number, t.status>> : t \in db.tasks}

C28_StatusStaysValid ==
    [][/\ WritesAreValid
       /\ (UpdateStep /\ req'.status \notin TaskStatuses \cup {"undefined", ""}) =>
             /\ req'.error \in {"Invalid task status", "Task not found"}
             /\ committed' = committed
             /\ view' = view
       /\ (UpdateStep /\ ~Truthy(req'.status)) =>
             /\ StatusOf(committed') = StatusOf(committed)
             /\ StatusOf(view') = StatusOf(view)
       /\ (UpdateStep /\ req'.status \in TaskStatuses /\ req'.error = "none") =>
             \E t \in committed'.tasks :
                t.task_number = 1 /\ t.status = req'.status]_vars

\* C28 witness: task 1 was moved to in_progress by updateTask and a later
\* request with status closed was rejected and left it as it was.
C28_Witness ==
    /\ req.status = "closed"
    /\ req.error = "Invalid task status"
    /\ \E t \in committed.tasks :
          t.task_number = 1 /\ t.status = "in_progress" /\ t.updated_at = "now"

\* C28 witness: a commit has closed task 1 after updateTask had moved it to
\* in_progress, and a retrospective task is stored as done.
C28_WitnessRun ==
    /\ req.status = "in_progress"
    /\ \E t, r \in committed.tasks :
          /\ t.task_number = 1 /\ t.origin = "user" /\ t.status = "done"
          /\ r.origin # "user" /\ r.status = "done"

\* C30: the chunks chunkText returns are the texts of the sections of the
\* document, a section starting at the first node and at every top-level
\* heading of depth 1, 2 or 3 and holding the nodes up to the next such
\* heading, without the sections that have no text; a text without a node
\* gives no chunk and no returned chunk is empty.  The sentence about the
\* sections is stated for documents of two sections or more.
SectionStarts(nodes) ==
    {i \in 1..Len(nodes) :
        i = 1 \/ (nodes[i].type = "heading" /\ nodes[i].depth \in {1, 2, 3})}

SectionEnd(nodes, i) ==
    IF \E j \in SectionStarts(nodes) : j > i
    THEN (CHOOSE j \in SectionStarts(nodes) :
             j > i /\ \A k \in SectionStarts(nodes) : k > i => j <= k) - 1
    ELSE Len(nodes)

RECURSIVE SectionTexts(_, _)
SectionTexts(nodes, i) ==
    IF i > Len(nodes) THEN <<>>
    ELSE <<toString(SubSeq(nodes, i, SectionEnd(nodes, i)))>>
            \o SectionTexts(nodes, SectionEnd(nodes, i) + 1)

C30_HeadingsStartChunks ==
    doc.pc = "returned" =>
       /\ doc.nodes = <<>> => doc.chunks = <<>>
       /\ \A i \in 1..Len(doc.chunks) : StringLength(Trim(doc.chunks[i])) > 0
       /\ Cardinality(SectionStarts(doc.nodes)) >= 2 =>
             doc.chunks = SelectSeq(SectionTexts(doc.nodes, 1), NonBlank)

\* C40: when a file sync returns, every stored file of the project has a
\* path that the ignore policy of that run accepts: a file indexed earlier
\* that is now ignored, on disk or not, is no longer in the index.
C40_IndexedPathsAreAccepted ==
    (pc = "git_load" /\ run.fileSyncReturned) =>
        \A f \in committed.indexed_files :
            f.project_id = ProjectId => Indexable(f.path)

\* C39: for a commit whose message holds several closing references, the
\* task of the project that the first reference names is done once the
\* transaction has committed (it stays as it was when it was done already
\* or does not exist), every other task, those of the later references
\* included, is as it was before the commit, no patch is fetched and no
\* retrospective task is generated.
ClosingRefs(message) == {i \in 1..Len(message) : IsClosingRef(message, i)}

ClosedByFirstRef(t, message) ==
    /\ t.project_id = ProjectId
    /\ FirstClosingRef(message, t.task_number)
    /\ t.status # "done"

C39_OnlyFirstReferenceCloses ==
    (unit.kind = "commit" /\ Cardinality(ClosingRefs(unit.message)) >= 2) =>
        /\ ~unit.patched
        /\ ~unit.generated
        /\ unit.outcome = "committed" =>
              committed.tasks =
                 {IF ClosedByFirstRef(t, unit.message)
                  THEN [t EXCEPT !.status = "done", !.updated_at = "now"]
                  ELSE t : t \in unit.pre.tasks}

\* C39 witness: a commit saying "Fixes #1 closes #2" has committed, task 1
\* was open before and is done, task 2 is still open.
C39_Witness ==
    /\ unit.kind = "commit"
    /\ unit.outcome = "committed"
    /\ unit.message = <<"Fixes", "#1", "closes", "#2">>
    /\ OpenTask(unit.pre, 1)
    /\ ~OpenTask(committed, 1)
    /\ OpenTask(committed, 2)

\* C39 witness: the first reference names a task of another project; the
\* commit has committed and task 1 of the later reference is still open.
C39_WitnessForeignFirst ==
    /\ unit.kind = "commit"
    /\ unit.outcome = "committed"
    /\ unit.message = <<"Resolves", "#9", "fixes", "#1">>
    /\ OpenTask(committed, 1)

\* C37: a run of the project's ingestion leaves every row of another
\* project as it was (its files with their chunks, its commits with their
\* links, its tasks), in the store and inside the run's transactions, and
\* every link row it writes joins a commit and a file of the same project;
\* this holds when both projects have the same paths and commit hashes and
\* when a commit of the project names a task number of the other project.
ForeignRows(db) ==
    LET files == {f \in db.indexed_files : f.project_id # ProjectId}
        commits == {c \in db.commits : c.project_id # ProjectId}
    IN  [indexed_files |-> files,
         code_chunks |-> {c \in db.code_chunks : \E f \in files : f.id = c.file_id},
         commits |-> commits,
         commit_files |-> {l \in db.commit_files : \E c \in commits : c.id = l.commit_id},
         tasks |-> {t \in db.tasks : t.project_id # ProjectId}]

LinksStayInsideAProject(db) ==
    \A l \in db.commit_files :
        \A c \in db.commits, f \in db.indexed_files :
            (c.id = l.commit_id /\ f.id = l.file_id) => c.project_id = f.project_id

C37_RunTouchesOwnProjectOnly ==
    /\ ForeignRows(committed) = ForeignRows(SharedStore("open", "open"))
    /\ ForeignRows(view) = ForeignRows(SharedStore("open", "open"))
    /\ LinksStayInsideAProject(committed)
    /\ LinksStayInsideAProject(view)

\* C37 witness: a run has ended without a failure after it re-indexed a.ts,
\* pruned b.ts, recorded the commits feat and refs, which the other project
\* has recorded too, and met the reference to task 9 of the other project.
C37_Witness ==
    /\ pc = "idle"
    /\ run.ended
    /\ run.clean
    /\ FileRows(committed, ProjectId, "b.ts") = {}
    /\ \E f \in FileRows(committed, ProjectId, "a.ts") : f.id >= 5
    /\ \E c \in ProjectCommits(committed) :
          c.commit_hash = "refs" /\ c.message = <<"Resolves", "#9", "fixes", "#1">>
    /\ \E c \in ProjectCommits(committed) : c.commit_hash = "feat"
    /\ \E t \in committed.tasks : t.project_id # ProjectId /\ t.task_number = 9

\* C33: when the transaction of a modified file commits, the path has one
\* row, with an id that no row had before, and no commit link and no
\* knowledge-note link refers to the row the path had before; and no step
\* of a run adds a link to a commit that is already recorded, so the links
\* of the recorded commits to that path are not restored.
ReindexCommits ==
    /\ pc = "file_chunks"
    /\ pc' = "file_loop"
    /\ unit'.outcome = "committed"
    /\ FileRows(committed, ProjectId, unit.key) # {}

FileLinks(ids) == {l \in kb.knowledge_note_links : l.kind = "file" /\ l.target \in ids}

C33_ReindexDropsLinks ==
    [][/\ ReindexCommits =>
            LET old == {f.id : f \in FileRows(committed, ProjectId, unit.key)}
                new == FileRows(committed', ProjectId, unit.key)
            IN  /\ Cardinality(new) = 1
                /\ \A f \in new : f.id \notin {g.id : g \in committed.indexed_files}
                /\ \A l \in committed'.commit_files : l.file_id \notin old
                /\ \A l \in kb'.knowledge_note_links :
                      ~(l.kind = "file" /\ l.target \in old)
       /\ \A c \in ProjectCommits(committed) :
             LinksOf(committed', c.id) \subseteq LinksOf(committed, c.id)]_vars

\* C33 witness: the edited a.ts was re-indexed; the row it had was linked
\* to commit fix and cited by a knowledge note, the new row has neither link.
C33_Witness ==
    /\ unit.kind = "file"
    /\ unit.key = "a.ts"
    /\ unit.outcome = "committed"
    /\ \E f \in FileRows(unit.pre, ProjectId, "a.ts") :
          /\ f.id = 1
          /\ \E l \in unit.pre.commit_files : l.file_id = 1
    /\ \E f \in FileRows(committed, ProjectId, "a.ts") :
          /\ f.id # 1
          /\ \A l \in committed.commit_files : l.file_id # f.id
          /\ FileLinks({f.id}) = {}
    /\ FileLinks({1}) = {}
    /\ FileLinks({2}) # {}

\* C33 witness: two runs later the git sync has found commit fix recorded
\* and a.ts still has no link to it.
C33_WitnessLater ==
    /\ pc = "idle"
    /\ runs = 2
    /\ run.gitStarted
    /\ run.clean
    /\ \E f \in FileRows(committed, ProjectId, "a.ts") :
          /\ f.id # 1
          /\ \A l \in committed.commit_files : l.file_id # f.id
    /\ \E c \in ProjectCommits(committed) :
          c.commit_hash = "fix" /\ <<"M", "a.ts">> \in {gitlog[3].changes[i] : i \in 1..2}

\* C36: the job of an ingestion log stream has written the end event only
\* when the clone or pull returned a path and the run it started then ended
\* without an exception; a job whose clone, pull or run failed has written
\* the error event.
JobSucceeded(job) == job.run # 0 /\ runs = job.run /\ pc = "idle" /\ threw = "none"

C36_EndEventMeansSuccess ==
    /\ "end" \in active.sent => JobSucceeded(active)
    /\ (active.phase = "done" /\ ~active.ended /\ ~JobSucceeded(active))
          => "error" \in active.sent

\* C31: when addProjectDocument has returned, the document row it inserted
\* and one chunk row for each chunk it embedded (the chunks of chunkText with
\* five characters or more after trim) are in the store beside the rows that
\* were there before; when it has thrown (text extraction, embedding, a
\* failed insert or a file name the project has already) the document and
\* chunk tables are as they were before the call; in both cases the pooled
\* client is released.
RECURSIVE Embeddable(_)
Embeddable(chunks) ==
    IF chunks = <<>> THEN <<>>
    ELSE IF StringLength(Trim(Head(chunks))) >= 5
         THEN <<Head(chunks)>> \o Embeddable(Tail(chunks))
         ELSE Embeddable(Tail(chunks))

NewChunks == {c \in docdb.document_chunks : c.document_id = upload.documentId}

C31_UploadIsAtomic ==
    /\ upload.result = "returned" =>
          /\ pool = 0
          /\ docdb.project_documents = upload.pre.project_documents \cup
                {[id |-> upload.documentId, project_id |-> upload.project,
                  file_name |-> upload.file_name]}
          /\ \A d \in upload.pre.project_documents : d.id # upload.documentId
          /\ docdb.document_chunks \ NewChunks = upload.pre.document_chunks
          /\ upload.embedded = Embeddable(chunkText(upload.build, upload.nodes))
          /\ Cardinality(NewChunks) = Len(upload.embedded)
          /\ {c.content : c \in NewChunks}
                = {upload.embedded[i] : i \in 1..Len(upload.embedded)}
    /\ upload.result = "thrown" =>
          /\ pool = 0
          /\ DocTables(docdb) = upload.pre

\* C31 witness: an upload returned after it embedded one chunk and skipped
\* a chunk of two characters.
C31_Witness ==
    /\ upload.result = "returned"
    /\ Len(upload.embedded) = 1
    /\ Len(chunkText(upload.build, upload.nodes)) = 2
    /\ Cardinality(NewChunks) = 1

\* C31 witness: an upload threw at the second chunk, after the document row
\* and a chunk row were inserted in its transaction.
C31_WitnessThrow ==
    /\ upload.result = "thrown"
    /\ upload.failed \in {"embed", "insert_chunk"}
    /\ Len(upload.embedded) = 1
    /\ upload.view.document_chunks # upload.pre.document_chunks

\* C31 witness: an upload of design.md, which the project has, threw.
C31_WitnessDuplicate ==
    /\ upload.result = "thrown"
    /\ upload.failed = "duplicate"
    /\ upload.file_name = "design.md"

\* C35: as many captures as the pool has clients, started in any order,
\* never reach a state where one of them is unfinished and none of them can
\* take a step: a capture that waits for a client is always followed by a
\* release.
CaptureCanStep(i) ==
    \/ captures[i].pc \in {"reading", "summarize"}
    \/ captures[i].pc = "client" /\ pool < PoolSize

C35_CapturesNeverDeadlock ==
    (\E i \in 1..PoolSize : captures[i].pc \notin {"idle", "done"})
        => \E i \in 1..PoolSize : CaptureCanStep(i)

\* C38: every knowledge note has the project of its conversation: a capture
\* requested for a project with a conversation of another project inserts
\* no note.
C38_NoteBelongsToConversationProject ==
    \A n \in kb.knowledge_notes :
        n.project_id = ConversationProject(n.conversation_id)

\* C34: a message request that has read the conversation has as its
\* question the user message it stored itself and as its history the rows
\* stored before that message, and every reply in the conversation answers
\* the message of the request that saved it.
OwnMessage(r) ==
    CHOOSE i \in 1..Len(chat.messages) :
        chat.messages[i].role = "user" /\ chat.messages[i].by = r

C34_RequestAnswersItsOwnMessage ==
    /\ \A r \in ChatRequests :
          chat.requests[r].pc = "answer" =>
             /\ chat.requests[r].question = ChatMessage("user", r, 0)
             /\ chat.requests[r].history = SubSeq(chat.messages, 1, OwnMessage(r) - 1)
    /\ \A i \in 1..Len(chat.messages) :
          (chat.messages[i].role = "assistant" /\ chat.messages[i].by # 0)
             => chat.messages[i].about = chat.messages[i].by

\* C32: when two runs of the same project's ingestion interleave, the
\* project never holds two file rows of one path, two commit rows of one
\* hash or two retrospective tasks of one commit, and both runs come to
\* their end.
TwinRowsUnique ==
    /\ \A f, g \in twin.db.files : f.path = g.path => f = g
    /\ \A c, d \in twin.db.commits : c.hash = d.hash => c = d
    /\ \A t, u \in twin.db.tasks : t.origin # "" /\ t.origin = u.origin => t = u

TwinBothDone == \A r \in {1, 2} : twin.runs[r].pc = "done"

C32_InterleavedRunsStayUnique == []TwinRowsUnique /\ <>TwinBothDone

\* Both runs have ended after one lost the INSERT of a path and one lost
\* the INSERT of a hash to the other, and the commit has its task.
C32_Witness ==
    /\ TwinBothDone
    /\ \E r \in {1, 2} : "unique_file" \in twin.runs[r].errors
    /\ \E r \in {1, 2} : "unique_commit" \in twin.runs[r].errors
    /\ \E t \in twin.db.tasks : t.origin = "feat"
    /\ {f.path : f \in twin.db.files} = Paths

\* A run's DELETE has waited for the other run's transaction.
C32_WitnessWaited ==
    \E r \in {1, 2} :
        /\ twin.runs[r].pc = "file_wait"
        /\ twin.runs[Other(r)].tx.open
====
